---- MODULE Spec2Model ----
(***************************************************************************)
(* The QR-code service of src/5_Contact.py (the Flask application "app     *)
(* (1).py"): the Code registry (POST /create), the payload resolver        *)
(* (code_target), the scan recorder (log_scan), the scan, landing,         *)
(* download and view routes, and POST /create and GET /s/<slug> requests   *)
(* handled at the same time.  Of the PDF site of src/app.py: _parse_ranges *)
(* and the temporary files and the page order of combine_interleave and    *)
(* pdf_to_images.  Of src/wrapper.app.py: the two middlewares and the      *)
(* composed application.                                                   *)
(*                                                                         *)
(* Text the code inspects (names, slugs, URLs, file names, form text) is a *)
(* sequence of one-character strings, so that strip, split, slugify and    *)
(* startswith are computed as the code computes them.  Values the code     *)
(* only compares with literals (qr_type, mode) are TLA+ strings.           *)
(***************************************************************************)
EXTENDS Integers, Sequences, FiniteSets, TLC

\* ------------------------------------------------------------------------
\* Python values

\* Python's None among text values: no text has a multi-character element.
None == <<"<None>">>

\* truthiness of a str-or-None value
Truthy(v) == v # None /\ v # <<>>

\* a or b
Or(a, b) == IF Truthy(a) THEN a ELSE b

\* d.get(k, default) on a dict or MultiDict
Get(d, k, default) == IF k \in DOMAIN d THEN d[k] ELSE default

\* "{v}" inside an f-string
Format(v) == IF v = None THEN <<"N","o","n","e">> ELSE v

\* s.startswith(p)
StartsWith(s, p) == Len(s) >= Len(p) /\ SubSeq(s, 1, Len(p)) = p

Whitespace == {" ", "\n", "\t", "\r"}

RECURSIVE LStrip(_)
LStrip(s) == IF s # <<>> /\ Head(s) \in Whitespace THEN LStrip(Tail(s)) ELSE s

RECURSIVE RStrip(_)
RStrip(s) ==
    IF s # <<>> /\ s[Len(s)] \in Whitespace THEN RStrip(SubSeq(s, 1, Len(s) - 1)) ELSE s

\* s.strip()
Strip(s) == RStrip(LStrip(s))

\* s.find(c) as a 1-based index, 0 when c does not occur
IndexOf(s, c) == IF \E i \in 1..Len(s) : s[i] = c
                 THEN CHOOSE i \in 1..Len(s) : s[i] = c /\ \A j \in 1..(i - 1) : s[j] # c
                 ELSE 0

\* s.rfind(c) as a 1-based index, 0 when c does not occur
LastIndexOf(s, c) == IF \E i \in 1..Len(s) : s[i] = c
                     THEN CHOOSE i \in 1..Len(s) : s[i] = c /\ \A j \in (i + 1)..Len(s) : s[j] # c
                     ELSE 0

\* s.split(c): the pieces between the occurrences of c
RECURSIVE Split(_, _)
Split(s, c) ==
    LET i == IndexOf(s, c)
    IN  IF i = 0 THEN <<s>>
        ELSE <<SubSeq(s, 1, i - 1)>> \o Split(SubSeq(s, i + 1, Len(s)), c)

\* s.splitlines(): no piece for an empty text or after a final line break
SplitLines(s) ==
    IF s = <<>> THEN <<>>
    ELSE IF s[Len(s)] = "\n" THEN Split(SubSeq(s, 1, Len(s) - 1), "\n")
    ELSE Split(s, "\n")

\* [x.strip() for x in xs if x.strip()]
RECURSIVE StripNonEmpty(_)
StripNonEmpty(xs) ==
    IF xs = <<>> THEN <<>>
    ELSE (IF Strip(Head(xs)) # <<>> THEN <<Strip(Head(xs))>> ELSE <<>>)
         \o StripNonEmpty(Tail(xs))

UpperCase == <<"A","B","C","D","E","F","G","H","I","J","K","L","M","N","O","P","Q","R","S","T","U","V","W","X","Y","Z">>
LowerCase == <<"a","b","c","d","e","f","g","h","i","j","k","l","m","n","o","p","q","r","s","t","u","v","w","x","y","z">>
Digits == <<"0","1","2","3","4","5","6","7","8","9">>

\* c.lower()
LowerChar(c) == IF \E i \in 1..Len(UpperCase) : UpperCase[i] = c
                THEN LowerCase[CHOOSE i \in 1..Len(UpperCase) : UpperCase[i] = c]
                ELSE c

\* s.lower()
Lower(s) == [i \in 1..Len(s) |-> LowerChar(s[i])]

\* str(n) for n >= 0
RECURSIVE DecStr(_)
DecStr(n) == IF n < 10 THEN <<Digits[n + 1]>> ELSE DecStr(n \div 10) \o <<Digits[(n % 10) + 1]>>

\* ------------------------------------------------------------------------
\* slugify(name) of python-slugify: lower-case, every run of characters
\* other than a-z and 0-9 becomes one "-", and "-" is stripped at both ends.

IsSlugChar(c) == (\E i \in 1..Len(LowerCase) : LowerCase[i] = c)
                 \/ (\E i \in 1..Len(Digits) : Digits[i] = c)

RECURSIVE SlugFold(_, _)
SlugFold(out, s) ==
    IF s = <<>> THEN out
    ELSE LET c == LowerChar(Head(s))
         IN  SlugFold(IF IsSlugChar(c) THEN Append(out, c)
                      ELSE IF out = <<>> \/ out[Len(out)] = "-" THEN out
                      ELSE Append(out, "-"),
                      Tail(s))

slugify(name) ==
    LET h == SlugFold(<<>>, name)
    IN  IF h # <<>> /\ h[Len(h)] = "-" THEN SubSeq(h, 1, Len(h) - 1) ELSE h

\* ------------------------------------------------------------------------
\* Configuration and environment

\* the scheme and host url_for(..., _external=True) puts before a path
HostUrl == <<"h","t","t","p",":","/","/","h">>

UPLOAD_DIR == <<"u","p","l","o","a","d","s">>

\* an e-mail address is only ever compared
DEFAULT_OWNER_EMAIL == "free@oneplaceqr.local"

\* the fifteen types the create form offers
QRTypes == {"website", "pdf", "images", "video", "wifi", "business", "vcard", "mp3",
            "app", "links", "coupon", "facebook", "instagram", "social", "whatsapp"}

\* the types payload_for and code_target treat as one stored URL
UrlTypes == {"website", "pdf", "video", "app", "facebook", "instagram", "whatsapp",
             "coupon", "mp3"}

\* the values of the create form's mode select
Modes == {"redirect", "landing"}

\* ------------------------------------------------------------------------
\* Uploads

ALLOWED_IMG == {<<"p","n","g">>, <<"j","p","g">>, <<"j","p","e","g">>, <<"g","i","f">>, <<"w","e","b","p">>, <<"b","m","p">>, <<"s","v","g">>}
ALLOWED_PDF == {<<"p","d","f">>}
ALLOWED_AUDIO == {<<"m","p","3">>, <<"w","a","v">>, <<"m","4","a">>, <<"a","a","c">>, <<"o","g","g">>}
ALLOWED_VIDEO == {<<"m","p","4">>, <<"w","e","b","m">>, <<"m","o","v">>, <<"m","k","v">>}
ALLOWED_DOCS == {<<"t","x","t">>, <<"c","s","v">>, <<"m","d">>, <<"d","o","c">>, <<"d","o","c","x">>, <<"p","p","t">>, <<"p","p","t","x">>, <<"x","l","s">>,
                 <<"x","l","s","x">>, <<"r","t","f">>}
ALLOWED_ARCH == {<<"z","i","p">>, <<"r","a","r">>, <<"7","z">>, <<"g","z">>, <<"t","a","r">>}
ALLOWED_MISC == {<<"a","p","k">>}
ALLOWED_ANY == ALLOWED_IMG \cup ALLOWED_PDF \cup ALLOWED_AUDIO \cup ALLOWED_VIDEO
               \cup ALLOWED_DOCS \cup ALLOWED_ARCH \cup ALLOWED_MISC

\* os.path.splitext(fn)[1].lower().replace(".", ""): the text after the last
\* dot, unless that dot only leads the file name
_safe_ext(fn) ==
    LET p == LastIndexOf(fn, ".")
    IN  IF p = 0 \/ (\A i \in 1..p : fn[i] = ".") THEN <<>>
        ELSE Lower(SubSeq(fn, p + 1, Len(fn)))

\* request.files.get(k) when the field carries no file
NoFile == [filename |-> None]

\* request.files.getlist(k)
FilesList(files, k) == Get(files, k, <<>>)

\* request.files.get(k)
FilesGet(files, k) == IF FilesList(files, k) = <<>> THEN NoFile ELSE FilesList(files, k)[1]

\* save_upload: [raised, value, saved]; raised is its ValueError, value the
\* URL it returns (or None), saved the file names it wrote under UPLOAD_DIR
save_upload(file_storage, allowed_ext, token) ==
    IF ~Truthy(file_storage.filename)
    THEN [raised |-> FALSE, value |-> None, saved |-> {}]
    ELSE LET ext == _safe_ext(file_storage.filename)
             fname == token \o <<".">> \o ext
         IN  IF ext \notin allowed_ext
             THEN [raised |-> TRUE, value |-> None, saved |-> {}]
             ELSE [raised |-> FALSE, value |-> HostUrl \o <<"/","u","/">> \o fname,
                   saved |-> {fname}]

\* save_multi: save_upload on every named file in turn, stopping at the
\* first ValueError; [raised, value, saved] with value the list of URLs
RECURSIVE save_multi(_, _, _)
save_multi(files, allowed_ext, token) ==
    IF files = <<>> THEN [raised |-> FALSE, value |-> <<>>, saved |-> {}]
    ELSE IF ~Truthy(Head(files).filename) THEN save_multi(Tail(files), allowed_ext, token)
    ELSE LET one == save_upload(Head(files), allowed_ext, token)
             rest == save_multi(Tail(files), allowed_ext, token)
         IN  IF one.raised THEN one
             ELSE [raised |-> rest.raised, value |-> <<one.value>> \o rest.value,
                   saved |-> one.saved \cup rest.saved]

\* ------------------------------------------------------------------------
\* JSON: data_json holds a JSON document, here its syntax tree

JNull == [j |-> "null"]

\* JText with None written as the text str(None)
JTextStr(v) == [j |-> "string", s |-> Format(v)]

\* a str or None as a JSON value
JText(v) == IF v = None THEN JNull ELSE [j |-> "string", s |-> v]

\* a dict of str-or-None values as a JSON object
JObject(d) == [j |-> "object", members |-> [k \in DOMAIN d |-> JText(d[k])]]

\* json.dumps on a payload: "links" holds a list of dicts, "images" a list
\* of texts, every other key a text or None
json_dumps(payload) ==
    [j |-> "object",
     members |-> [k \in DOMAIN payload |->
        IF k = "links"
        THEN [j |-> "array",
              items |-> [i \in 1..Len(payload[k]) |-> JObject(payload[k][i])]]
        ELSE IF k = "images"
        THEN [j |-> "array",
              items |-> [i \in 1..Len(payload[k]) |-> JText(payload[k][i])]]
        ELSE JText(payload[k])]]

\* json.loads
RECURSIVE json_loads(_)
json_loads(doc) ==
    CASE doc.j = "null" -> None
      [] doc.j = "string" -> doc.s
      [] doc.j = "array" -> [i \in 1..Len(doc.items) |-> json_loads(doc.items[i])]
      [] doc.j = "object" -> [k \in DOMAIN doc.members |-> json_loads(doc.members[k])]

\* ------------------------------------------------------------------------
\* POST /create

\* the links textarea: one "label|url" per line; a row without "|" is dropped
RECURSIVE ParseLinks(_)
ParseLinks(rows) ==
    IF rows = <<>> THEN <<>>
    ELSE LET row == Head(rows)
             p == IndexOf(row, "|")
         IN  (IF p = 0 THEN <<>>
              ELSE <<[label |-> Strip(SubSeq(row, 1, p - 1)),
                      url |-> Strip(SubSeq(row, p + 1, Len(row)))]>>)
             \o ParseLinks(Tail(rows))

\* the vCard 3.0 text block payload_for builds
VCardText(fn, title, email, phone, org, website) ==
    <<"B","E","G","I","N",":","V","C","A","R","D","\n","V","E","R","S","I","O","N",":","3",".","0","\n","N",":">> \o fn \o <<"\n","F","N",":">> \o fn \o <<"\n","T","I","T","L","E",":">> \o title
    \o <<"\n","O","R","G",":">> \o org \o <<"\n","T","E","L",";","T","Y","P","E","=","C","E","L","L",":">> \o phone
    \o <<"\n","E","M","A","I","L",";","T","Y","P","E","=","I","N","T","E","R","N","E","T",":">> \o email \o <<"\n","U","R","L",":">> \o website \o <<"\n","E","N","D",":","V","C","A","R","D">>

\* payload_for(t), with the values of create it closes over
payload_for(t, form, up_url, uploaded_file, images_extra, url_val) ==
    IF t = "images"
    THEN LET url_list == StripNonEmpty(Split(Get(form, "images", <<>>), ","))
             gen_is_img == /\ Truthy(up_url)
                           /\ Truthy(uploaded_file.filename)
                           /\ _safe_ext(uploaded_file.filename) \in ALLOWED_IMG
         IN  [images |-> url_list \o images_extra
                         \o (IF Truthy(up_url) /\ gen_is_img THEN <<up_url>> ELSE <<>>)]
    ELSE IF t \in UrlTypes THEN [url |-> Or(up_url, url_val)]
    ELSE IF t \in {"links", "social"}
    THEN [links |-> ParseLinks(StripNonEmpty(SplitLines(Get(form, "links", <<>>))))]
    ELSE IF t = "business"
    THEN [name |-> Get(form, "biz_name", None),
          website |-> Get(form, "website", None),
          desc |-> Get(form, "desc", None)]
    ELSE IF t = "wifi"
    THEN [ssid |-> Get(form, "ssid", None),
          password |-> Get(form, "password", None),
          security |-> Get(form, "security", <<"W","P","A">>)]
    ELSE IF t = "vcard"
    THEN LET fn == Get(form, "fn", <<>>)
             title == Get(form, "title", <<>>)
             email == Get(form, "email", <<>>)
             phone == Get(form, "phone", <<>>)
             org == Get(form, "org", <<>>)
             website == Get(form, "website", <<>>)
         IN  [fn |-> fn, title |-> title, email |-> email, phone |-> phone, org |-> org,
              website |-> website,
              vcard_text |-> VCardText(fn, title, email, phone, org, website)]
    ELSE [url |-> Or(up_url, url_val)]

\* SlugTaken with a slug comparison that never matches
SlugTakenNever(rows, slug) == FALSE

\* QRCode.query.filter_by(slug=slug).first() finds a row; the unique index
\* on QRCode.slug matches slugs the same way
SlugTaken(rows, slug) == \E i \in 1..Len(rows) : rows[i].slug = slug

\* the candidate loop of create: base, base-2, base-3, ... until none has it
RECURSIVE SlugLoop(_, _, _, _)
SlugLoop(rows, base_slug, slug, i) ==
    IF SlugTaken(rows, slug)
    THEN SlugLoop(rows, base_slug, base_slug \o <<"-">> \o DecStr(i + 1), i + 1)
    ELSE slug

\* UniqueSlug with the suffix counter started at 0
UniqueSlugFromZero(rows, base_slug) == SlugLoop(rows, base_slug, base_slug, 0)

\* base_slug made unique: slug = base_slug; i = 1; while taken: ...
UniqueSlug(rows, base_slug) == SlugLoop(rows, base_slug, base_slug, 1)

\* add_and_commit that updates the row of the same name in place instead of
\* adding one
add_and_commit_by_name(rows, qr_row) ==
    IF \E i \in 1..Len(rows) : rows[i].name = qr_row.name
    THEN [raised |-> FALSE,
          rows |-> [i \in 1..Len(rows) |->
                      IF rows[i].name = qr_row.name
                      THEN [qr_row EXCEPT !.id = rows[i].id] ELSE rows[i]]]
    ELSE [raised |-> FALSE, rows |-> Append(rows, qr_row)]

\* add_and_commit on a table whose slug column has no unique index
add_and_commit_unindexed(rows, qr_row) ==
    [raised |-> FALSE, rows |-> Append(rows, qr_row)]

\* db.session.add(qr_row); db.session.commit(): [raised, rows].  The insert
\* adds one row and touches no other; the unique index on QRCode.slug makes
\* it raise when a row already has the slug, and then no row is added
add_and_commit(rows, qr_row) ==
    IF SlugTaken(rows, qr_row.slug)
    THEN [raised |-> TRUE, rows |-> rows]
    ELSE [raised |-> FALSE, rows |-> Append(rows, qr_row)]

\* a response: status, Location header, body, and the messages flash()ed
\* while handling the request
Response(status, location, body, flashed) ==
    [status |-> status, location |-> location, body |-> body, flashed |-> flashed]

\* redirect(location)
Redirect(location, flashed) == Response(302, location, None, flashed)

\* an exception no handler catches, or abort(status)
Abort(status) == Response(status, None, None, <<>>)

\* the POST branch of create on the tables rows/files with the random draws
\* rnd: [codes, uploads, resp, payload]; payload is what payload_for
\* returned, None when the request ended before.  payload_for raises no
\* ValueError (save_upload is called before the try), so the except branch
\* that flashes the message and redirects to the form is never taken
create_post(req, rnd, rows, files, owner_id) ==
    LET form == req.form
        out(rs, fs, resp, payload) ==
            [codes |-> rs, uploads |-> fs, resp |-> resp, payload |-> payload]
    IN
    IF "name" \notin DOMAIN form \/ "qr_type" \notin DOMAIN form
    THEN out(rows, files, Abort(400), None)
    ELSE
    LET name == Strip(form["name"])
        qr_type == form["qr_type"]
        uploaded_file == FilesGet(req.files, "file")
        up == save_upload(uploaded_file, ALLOWED_ANY, rnd.file)
    IN
    IF up.raised THEN out(rows, files, Abort(500), None)
    ELSE
    LET multi == save_multi(FilesList(req.files, "file_images"), ALLOWED_IMG, rnd.image)
    IN
    IF multi.raised THEN out(rows, files \cup up.saved \cup multi.saved, Abort(500), None)
    ELSE
    LET up_url == up.value
        images_extra == multi.value
        raw_url == Strip(Or(Get(form, "url", None), <<>>))
        url_val == IF raw_url = <<>> THEN None ELSE raw_url
        payload == payload_for(qr_type, form, up_url, uploaded_file, images_extra, url_val)
        fg == Get(form, "fg", "#000000")
        bg == Get(form, "bg", "#ffffff")
        mode == Get(form, "mode", "redirect")
        lf == FilesGet(req.files, "logo")
        has_logo == Truthy(lf.filename)
        logo_ok == has_logo /\ _safe_ext(lf.filename) \in ALLOWED_IMG
        logo_name == <<"l","o","g","o","_">> \o rnd.logo \o <<".">> \o _safe_ext(lf.filename)
        logo_path == IF logo_ok THEN UPLOAD_DIR \o <<"/">> \o logo_name ELSE None
        flashed == IF has_logo /\ ~logo_ok THEN <<<<"U","n","s","u","p","p","o","r","t","e","d"," ","l","o","g","o"," ","t","y","p","e",".">>>> ELSE <<>>
        saved == files \cup up.saved \cup multi.saved
                 \cup (IF logo_ok THEN {logo_name} ELSE {})
        base_slug == Or(slugify(name), rnd.slug)
        slug == UniqueSlug(rows, base_slug)
        qr_row == [id |-> Len(rows) + 1, owner_id |-> owner_id, name |-> name,
                   slug |-> slug, qr_type |-> qr_type, data_json |-> json_dumps(payload),
                   fg |-> fg, bg |-> bg, logo_path |-> logo_path, mode |-> mode]
        added == add_and_commit(rows, qr_row)
    IN
    IF added.raised
    THEN out(rows, saved, Abort(500), payload)
    ELSE out(added.rows, saved, Redirect(<<"/","c","o","d","e","/">> \o slug, flashed), payload)

\* ------------------------------------------------------------------------
\* The payload resolver

\* Sentinel as the empty string
EmptySentinel == <<>>

\* the "no target" placeholder of code_target
Sentinel == <<"#">>

\* code_target that takes the image added last
code_target_last_image(qr) ==
    LET payload == json_loads(qr.data_json)
        t == qr.qr_type
    IN  IF qr.mode = "landing" THEN HostUrl \o <<"/","l","/">> \o qr.slug
        ELSE IF t \in UrlTypes THEN Get(payload, "url", None)
        ELSE IF t = "links"
        THEN LET links == Get(payload, "links", <<>>)
             IN  IF Len(links) > 0 THEN links[1].url ELSE Sentinel
        ELSE IF t = "images"
        THEN LET imgs == Get(payload, "images", <<>>)
             IN  IF Len(imgs) > 0 THEN imgs[Len(imgs)] ELSE Sentinel
        ELSE IF t = "business" THEN Or(Get(payload, "website", None), Sentinel)
        ELSE IF t = "wifi"
        THEN <<"W","I","F","I",":","T",":">> \o Format(Get(payload, "security", <<"W","P","A">>))
             \o <<";","S",":">> \o Format(Get(payload, "ssid", <<>>))
             \o <<";","P",":">> \o Format(Get(payload, "password", <<>>)) \o <<";",";">>
        ELSE IF t = "vcard" THEN Get(payload, "vcard_text", None)
        ELSE Or(Get(payload, "url", None), Sentinel)

\* code_target that reads the vCard text under the key "vcard"
code_target_vcard_key(qr) ==
    LET payload == json_loads(qr.data_json)
        t == qr.qr_type
    IN  IF qr.mode = "landing" THEN HostUrl \o <<"/","l","/">> \o qr.slug
        ELSE IF t \in UrlTypes THEN Get(payload, "url", None)
        ELSE IF t = "links"
        THEN LET links == Get(payload, "links", <<>>)
             IN  IF Len(links) > 0 THEN links[1].url ELSE Sentinel
        ELSE IF t = "images"
        THEN LET imgs == Get(payload, "images", <<>>)
             IN  IF Len(imgs) > 0 THEN imgs[1] ELSE Sentinel
        ELSE IF t = "business" THEN Or(Get(payload, "website", None), Sentinel)
        ELSE IF t = "wifi"
        THEN <<"W","I","F","I",":","T",":">> \o Format(Get(payload, "security", <<"W","P","A">>))
             \o <<";","S",":">> \o Format(Get(payload, "ssid", <<>>))
             \o <<";","P",":">> \o Format(Get(payload, "password", <<>>)) \o <<";",";">>
        ELSE IF t = "vcard" THEN Get(payload, "vcard", None)
        ELSE Or(Get(payload, "url", None), Sentinel)

\* code_target that looks at the mode only for the types it has no branch
\* for
code_target_type_first(qr) ==
    LET payload == json_loads(qr.data_json)
        t == qr.qr_type
    IN  IF t \in UrlTypes THEN Get(payload, "url", None)
        ELSE IF t = "links"
        THEN LET links == Get(payload, "links", <<>>)
             IN  IF Len(links) > 0 THEN links[1].url ELSE Sentinel
        ELSE IF t = "images"
        THEN LET imgs == Get(payload, "images", <<>>)
             IN  IF Len(imgs) > 0 THEN imgs[1] ELSE Sentinel
        ELSE IF t = "business" THEN Or(Get(payload, "website", None), Sentinel)
        ELSE IF t = "wifi"
        THEN <<"W","I","F","I",":","T",":">> \o Format(Get(payload, "security", <<"W","P","A">>))
             \o <<";","S",":">> \o Format(Get(payload, "ssid", <<>>))
             \o <<";","P",":">> \o Format(Get(payload, "password", <<>>)) \o <<";",";">>
        ELSE IF t = "vcard" THEN Get(payload, "vcard_text", None)
        ELSE IF qr.mode = "landing" THEN HostUrl \o <<"/","l","/">> \o qr.slug
        ELSE Or(Get(payload, "url", None), Sentinel)

\* code_target: the target a Code resolves to
code_target(qr) ==
    LET payload == json_loads(qr.data_json)
        t == qr.qr_type
    IN  IF qr.mode = "landing" THEN HostUrl \o <<"/","l","/">> \o qr.slug
        ELSE IF t \in UrlTypes THEN Get(payload, "url", None)
        ELSE IF t = "links"
        THEN LET links == Get(payload, "links", <<>>)
             IN  IF Len(links) > 0 THEN links[1].url ELSE Sentinel
        ELSE IF t = "images"
        THEN LET imgs == Get(payload, "images", <<>>)
             IN  IF Len(imgs) > 0 THEN imgs[1] ELSE Sentinel
        ELSE IF t = "business" THEN Or(Get(payload, "website", None), Sentinel)
        ELSE IF t = "wifi"
        THEN <<"W","I","F","I",":","T",":">> \o Format(Get(payload, "security", <<"W","P","A">>))
             \o <<";","S",":">> \o Format(Get(payload, "ssid", <<>>))
             \o <<";","P",":">> \o Format(Get(payload, "password", <<>>)) \o <<";",";">>
        ELSE IF t = "vcard" THEN Get(payload, "vcard_text", None)
        ELSE Or(Get(payload, "url", None), Sentinel)

\* ------------------------------------------------------------------------
\* The scan recorder

\* the ScanEvent log_scan builds from the request
NewScanEvent(events, code_id, request) ==
    [id |-> Len(events) + 1, code_id |-> code_id, ip |-> request.ip, ua |-> request.ua,
     referer |-> request.referer, path |-> request.path]

\* log_scan without its except branch: the failure leaves the ScanEvent in
\* the session and reaches the caller
log_scan_reraise(events, code_id, request, db_ok) ==
    IF db_ok
    THEN [scans |-> Append(events, NewScanEvent(events, code_id, request)),
          pending |-> <<>>, raised |-> FALSE]
    ELSE [scans |-> events, pending |-> <<NewScanEvent(events, code_id, request)>>,
          raised |-> TRUE]

\* log_scan that records a client once per Code
log_scan_once(events, code_id, request, db_ok) ==
    IF db_ok /\ ~\E k \in 1..Len(events) :
                    events[k].code_id = code_id /\ events[k].ip = request.ip
    THEN [scans |-> Append(events, NewScanEvent(events, code_id, request)),
          pending |-> <<>>, raised |-> FALSE]
    ELSE [scans |-> events, pending |-> <<>>, raised |-> FALSE]

\* log_scan that keeps one ScanEvent per Code, the latest
log_scan_latest(events, code_id, request, db_ok) ==
    IF db_ok
    THEN [scans |-> Append(SelectSeq(events, LAMBDA e : e.code_id # code_id),
                           NewScanEvent(events, code_id, request)),
          pending |-> <<>>, raised |-> FALSE]
    ELSE [scans |-> events, pending |-> <<>>, raised |-> FALSE]

\* log_scan: [scans, pending, raised].  db_ok is whether the add and commit
\* go through; when they raise, the except branch rolls the session back,
\* which drops the pending ScanEvent, and nothing is re-raised
log_scan(events, code_id, request, db_ok) ==
    IF db_ok
    THEN [scans |-> Append(events, NewScanEvent(events, code_id, request)),
          pending |-> <<>>, raised |-> FALSE]
    ELSE [scans |-> events, pending |-> <<>>, raised |-> FALSE]

\* FindBySlug with first() in the place of first_or_404(): a slug no row
\* has gives whatever row the handler then reads, here the first
FindBySlugOrFirst(rows, slug) ==
    IF SlugTaken(rows, slug)
    THEN CHOOSE i \in 1..Len(rows) :
            rows[i].slug = slug /\ \A j \in 1..(i - 1) : rows[j].slug # slug
    ELSE IF Len(rows) > 0 THEN 1 ELSE 0

\* QRCode.query.filter_by(slug=slug).first(): the index of the first row
\* with the slug, 0 when there is none (first_or_404 then aborts)
FindBySlug(rows, slug) ==
    IF SlugTaken(rows, slug)
    THEN CHOOSE i \in 1..Len(rows) :
            rows[i].slug = slug /\ \A j \in 1..(i - 1) : rows[j].slug # slug
    ELSE 0

\* scan that renders only WiFi descriptors as text
scan_wifi_only(slug, request, db_ok, rows, events) ==
    LET i == FindBySlug(rows, slug)
    IN  IF i = 0 THEN [scans |-> events, pending |-> <<>>, resp |-> Abort(404)]
        ELSE
        LET qr == rows[i]
            target == code_target(qr)
            log == log_scan(events, qr.id, request, db_ok)
            resp == IF log.raised THEN Abort(500)
                    ELSE IF Truthy(target) /\ StartsWith(target, <<"W","I","F","I",":">>)
                    THEN Response(200, None, <<"<","p","r","e",">">> \o target \o <<"<","/","p","r","e",">">>, <<>>)
                    ELSE IF qr.mode = "landing" THEN Redirect(<<"/","l","/">> \o slug, <<>>)
                    ELSE Redirect(Or(target, Sentinel), <<>>)
        IN  [scans |-> log.scans, pending |-> log.pending, resp |-> resp]

\* GET /s/<slug>: [scans, pending, resp]
scan(slug, request, db_ok, rows, events) ==
    LET i == FindBySlug(rows, slug)
    IN  IF i = 0 THEN [scans |-> events, pending |-> <<>>, resp |-> Abort(404)]
        ELSE
        LET qr == rows[i]
            target == code_target(qr)
            log == log_scan(events, qr.id, request, db_ok)
            resp == IF log.raised THEN Abort(500)
                    ELSE IF Truthy(target) /\ (StartsWith(target, <<"W","I","F","I",":">>)
                                               \/ StartsWith(target, <<"B","E","G","I","N",":","V","C","A","R","D">>))
                    THEN Response(200, None, <<"<","p","r","e",">">> \o target \o <<"<","/","p","r","e",">">>, <<>>)
                    ELSE IF qr.mode = "landing" THEN Redirect(<<"/","l","/">> \o slug, <<>>)
                    ELSE Redirect(Or(target, Sentinel), <<>>)
        IN  [scans |-> log.scans, pending |-> log.pending, resp |-> resp]

\* scan_next with the ScanEvent recorded before the target is computed
scan_next_log_first(pc) ==
    CASE pc = "lookup" -> "record"
      [] pc = "record" -> "resolve"
      [] pc = "resolve" -> "respond"
      [] pc = "respond" -> "done"

\* the statements of scan in the order they run: the lookup (line 434),
\* code_target and then log_scan (line 435), the response (lines 436-439)
scan_next(pc) ==
    CASE pc = "lookup" -> "resolve"
      [] pc = "resolve" -> "record"
      [] pc = "record" -> "respond"
      [] pc = "respond" -> "done"

\* sub in s
Contains(s, sub) ==
    \E i \in 1..(Len(s) - Len(sub) + 1) : SubSeq(s, i, i + Len(sub) - 1) = sub

\* s.endswith(p)
EndsWith(s, p) == Len(s) >= Len(p) /\ SubSeq(s, Len(s) - Len(p) + 1, Len(s)) = p

\* the body landing_page renders for a payload: what it shows, kept as a
\* record instead of the HTML text; raised is the AttributeError of
\* url.lower() on a stored null URL
LandingBody(t, payload) ==
    IF t \in UrlTypes
    THEN LET url == Get(payload, "url", Sentinel)
         IN  IF t \in {"video", "pdf"} /\ url = None
             THEN [raised |-> TRUE, show |-> "none", data |-> <<>>]
             ELSE [raised |-> FALSE,
                   show |-> IF t = "mp3" THEN "link+audio"
                            ELSE IF t = "video"
                                    /\ (Contains(Lower(url), <<"y","o","u","t","u","b","e">>)
                                        \/ \E e \in {<<".","m","p","4">>, <<".","w","e","b","m">>, <<".","m","o","v">>, <<".","m","k","v">>} :
                                              EndsWith(Lower(url), e))
                            THEN "link+video"
                            ELSE IF t = "pdf" /\ EndsWith(Lower(url), <<".","p","d","f">>)
                            THEN "link+iframe"
                            ELSE "link",
                   data |-> <<Format(url)>>]
    ELSE IF t = "images"
    THEN [raised |-> FALSE, show |-> "gallery", data |-> Get(payload, "images", <<>>)]
    ELSE IF t \in {"links", "social"}
    THEN LET links == Get(payload, "links", <<>>)
         IN  [raised |-> FALSE, show |-> "list",
              data |-> [i \in 1..Len(links) |-> links[i].url \o <<"|">> \o links[i].label]]
    ELSE IF t = "business"
    THEN [raised |-> FALSE, show |-> "business",
          data |-> <<Format(Get(payload, "name", <<"B","u","s","i","n","e","s","s">>)),
                     Format(Get(payload, "desc", <<>>)),
                     Format(Get(payload, "website", Sentinel))>>]
    ELSE IF t = "wifi"
    THEN [raised |-> FALSE, show |-> "pre",
          data |-> <<<<"W","I","F","I",":","T",":">> \o Format(Get(payload, "security", <<"W","P","A">>))
                     \o <<";","S",":">> \o Format(Get(payload, "ssid", <<>>))
                     \o <<";","P",":">> \o Format(Get(payload, "password", <<>>)) \o <<";",";">>>>]
    ELSE IF t = "vcard"
    THEN [raised |-> FALSE, show |-> "pre",
          data |-> <<Format(Get(payload, "vcard_text", <<>>))>>]
    ELSE [raised |-> FALSE, show |-> "No content", data |-> <<>>]

\* GET /l/<slug>: [scans, pending, resp]
landing_page(slug, request, db_ok, rows, events) ==
    LET i == FindBySlug(rows, slug)
    IN  IF i = 0 THEN [scans |-> events, pending |-> <<>>, resp |-> Abort(404)]
        ELSE
        LET qr == rows[i]
            payload == json_loads(qr.data_json)
            log == log_scan(events, qr.id, request, db_ok)
            body == LandingBody(qr.qr_type, payload)
            resp == IF log.raised \/ body.raised THEN Abort(500)
                    ELSE Response(200, None,
                                  [title |-> qr.name, subtitle |-> qr.qr_type,
                                   show |-> body.show, data |-> body.data], <<>>)
        IN  [scans |-> log.scans, pending |-> log.pending, resp |-> resp]

\* the colour specifiers among those the requests carry that the imaging
\* library reads as a colour; "#12" is no hex colour of 3, 4, 6 or 8 digits,
\* and the library raises on it
ImageColorKnown == {"#000000", "#ffffff", "#ff0000"}

\* qr_png_pil with the logo composed outside a try block
qr_png_pil_no_try(data, fg, bg, logo_path, logo_readable) ==
    IF fg \notin ImageColorKnown \/ bg \notin ImageColorKnown
    THEN [raised |-> TRUE, img |-> None]
    ELSE IF logo_path # None /\ ~logo_readable
         THEN [raised |-> TRUE, img |-> None]
         ELSE [raised |-> FALSE,
               img |-> [data |-> data, fg |-> fg, bg |-> bg, logo |-> logo_path # None]]

\* qr_png_pil: [raised, img]; the image is kept as what it encodes, its
\* colours and whether the logo was pasted on it.  make_image is called
\* outside the try block and raises on a colour the library does not know;
\* opening and pasting the logo is inside it, and an exception there leaves
\* the image as it was
qr_png_pil(data, fg, bg, logo_path, logo_readable) ==
    IF fg \notin ImageColorKnown \/ bg \notin ImageColorKnown
    THEN [raised |-> TRUE, img |-> None]
    ELSE [raised |-> FALSE,
          img |-> [data |-> data, fg |-> fg, bg |-> bg,
                   logo |-> logo_path # None /\ logo_readable]]

\* qr_svg_text: the SVG image of the data, black on white and without logo
qr_svg_text(data) == [data |-> data, fg |-> "#000000", bg |-> "#ffffff", logo |-> FALSE]

\* _qr_bytes: [raised, payload, mime]; the payload is the image and the
\* format it was written in, kept as a record instead of the bytes.  The
\* SVG is drawn from the data alone; the raster formats take the row's
\* colours and logo, and a format that is none of the five named is written
\* as PNG
_qr_bytes(qr, fmt, logo_readable) ==
    LET data == HostUrl \o <<"/","s","/">> \o qr.slug
        f == Lower(fmt)
    IN  IF f = <<"s","v","g">>
        THEN [raised |-> FALSE, payload |-> [image |-> qr_svg_text(data), format |-> "SVG"],
              mime |-> "image/svg+xml"]
        ELSE LET drawn == qr_png_pil(data, qr.fg, qr.bg, qr.logo_path, logo_readable)
                 Saved(format, mime) ==
                     [raised |-> FALSE, payload |-> [image |-> drawn.img, format |-> format],
                      mime |-> mime]
             IN  IF drawn.raised THEN [raised |-> TRUE, payload |-> None, mime |-> "none"]
                 ELSE IF f = <<"j","p","g">> THEN Saved("JPEG", "image/jpeg")
                 ELSE IF f = <<"w","e","b","p">> THEN Saved("WEBP", "image/webp")
                 ELSE IF f = <<"p","d","f">> THEN Saved("PDF", "application/pdf")
                 ELSE IF f = <<"e","p","s">> THEN Saved("EPS", "application/postscript")
                 ELSE Saved("PNG", "image/png")

\* GET /d/<slug>.<fmt>: the response; it reads the QRCode row and writes
\* nothing.  An exception of _qr_bytes is not caught: the response is 500
download(slug, fmt, rows, logo_readable) ==
    LET i == FindBySlug(rows, slug)
    IN  IF i = 0 THEN Abort(404)
        ELSE LET qr == rows[i]
                 out == _qr_bytes(qr, fmt, logo_readable)
             IN  IF out.raised THEN Abort(500)
                 ELSE Response(200, None,
                          [payload |-> out.payload, mimetype |-> out.mime,
                           download_name |-> qr.slug \o <<".">> \o Lower(fmt)], <<>>)

\* GET /code/<slug>: the response; the row is looked up by slug and owner
view_code(slug, rows, owner_id) ==
    IF \E i \in 1..Len(rows) : rows[i].slug = slug /\ rows[i].owner_id = owner_id
    THEN LET code == rows[CHOOSE i \in 1..Len(rows) :
                            /\ rows[i].slug = slug /\ rows[i].owner_id = owner_id
                            /\ \A j \in 1..(i - 1) :
                                  ~(rows[j].slug = slug /\ rows[j].owner_id = owner_id)]
         IN  Response(200, None,
                      [title |-> code.name, qr_type |-> code.qr_type, mode |-> code.mode,
                       slug |-> code.slug], <<>>)
    ELSE Abort(404)

\* ------------------------------------------------------------------------
\* Bounds and the requests drawn

\* QRCode rows created at most, with requests of every type
MaxCodes == 1

\* QRCode rows created at most, with requests that differ in the name
MaxNamedCodes == 3

\* ScanEvent rows recorded at most
MaxScans == 1

\* secrets.token_hex(3), the slug of a name that slugifies to nothing
SlugTokens == {<<"0","a","1","b","2","c">>, <<"f","f","f","f","f","f">>}

\* secrets.token_hex(8), the stored name of an upload
FileTokens == {<<"f","0">>}

\* a file field the browser submits with no file chosen
EmptyFile == <<[filename |-> <<>>]>>

File(fn) == <<[filename |-> fn]>>

\* names with the same slug, the slug of a suffixed name, and no slug at all
Names == {<<"a">>, <<" ","A","!"," ">>, <<"a"," ","2">>, <<"!">>, <<" "," ">>, <<"0","A","1","B","2","C">>}

NameRequests ==
    {[form |-> [name |-> n, qr_type |-> "website", url |-> <<"h","t","t","p",":","/","/","x">>],
      files |-> [file |-> EmptyFile]] : n \in Names}
    \cup {[form |-> [qr_type |-> "website", url |-> <<"h","t","t","p",":","/","/","x">>],
           files |-> [file |-> EmptyFile]]}

\* the types a client can submit: the fifteen of the form and one that is not
SubmittedTypes == QRTypes \cup {"menu"}

\* the types whose payload is built from the url field and the file
UrlSubmittedTypes == SubmittedTypes \ {"images", "links", "social", "business", "wifi", "vcard"}

\* a request with no file chosen
Plain(form) == [form |-> form, files |-> [file |-> EmptyFile]]

\* the name is missing, or blank
NamelessRequests ==
    {Plain([qr_type |-> "website", url |-> <<"h","t","t","p",":","/","/","x">>]),
     Plain([name |-> <<" "," ">>, qr_type |-> "website", url |-> <<"h","t","t","p",":","/","/","x">>])}

\* every URL-backed type, with and without a URL
UrlRequests ==
    {Plain([name |-> <<"a">>, qr_type |-> t, url |-> u]) :
        t \in UrlSubmittedTypes, u \in {<<>>, <<" ","h","t","t","p",":","/","/","x"," ">>}}

LinkRequests ==
    {Plain([name |-> <<"a">>, qr_type |-> t, links |-> l, mode |-> m]) :
        t \in {"links", "social"},
        l \in {<<>>, <<"s","k","i","p","\n"," ","A"," ","|"," ","h","t","t","p",":","/","/","x"," ","\n","B","|">>},
        m \in Modes}

ImageRequests ==
    {[form |-> [name |-> <<"a">>, qr_type |-> "images", images |-> i],
      files |-> [file |-> EmptyFile, file_images |-> g]] :
        i \in {<<>>, <<"h","t","t","p",":","/","/","i",","," ",",","h","t","t","p",":","/","/","j">>},
        g \in {EmptyFile, File(<<"p",".","P","N","G">>)}}
    \cup {[form |-> [name |-> <<"a">>, qr_type |-> "images"],
           files |-> [file |-> File(f), file_images |-> EmptyFile]] :
            f \in {<<"p",".","p","n","g">>, <<"d",".","p","d","f">>}}
    \cup {[form |-> [name |-> <<"a">>, qr_type |-> "images"],
           files |-> [file |-> File(<<"p",".","p","n","g">>),
                      file_images |-> File(<<"p",".","p","n","g">>) \o File(<<"p",".","e","x","e">>)]]}

OtherRequests ==
    {Plain([name |-> <<"a">>, qr_type |-> t]) : t \in {"business", "wifi", "vcard"}}
    \cup {Plain([name |-> <<"a">>, qr_type |-> "business", website |-> w,
                 biz_name |-> <<"B">>, desc |-> <<>>]) : w \in {<<>>, <<"h","t","t","p",":","/","/","b">>}}
    \cup {Plain([name |-> <<"a">>, qr_type |-> "wifi", ssid |-> <<"H","o","m","e">>,
                 password |-> <<"s","e","c","r","e","t">>, security |-> s]) : s \in {<<"W","P","A">>, <<"W","E","P">>}}
    \cup {Plain([name |-> <<"a">>, qr_type |-> "vcard", fn |-> <<"A","l">>, phone |-> <<"1">>])}

\* every type in landing mode
LandingRequests ==
    {Plain([name |-> <<"a">>, qr_type |-> t, url |-> <<"h","t","t","p",":","/","/","x">>, mode |-> "landing"]) :
        t \in SubmittedTypes \ {"links", "social"}}
    \cup {Plain([name |-> <<"a">>, qr_type |-> "video", mode |-> "landing"])}

\* an upload with an allowed and a disallowed extension; a logo; a mode and
\* colours the form does not offer
FileRequests ==
    {[form |-> [name |-> <<"a">>, qr_type |-> "pdf", url |-> <<"h","t","t","p",":","/","/","x">>],
      files |-> [file |-> File(f)]] : f \in {<<"d",".","p","d","f">>, <<"d",".","e","x","e">>}}
    \cup {[form |-> [name |-> <<"a">>, qr_type |-> "website", url |-> <<"h","t","t","p",":","/","/","x">>,
                     mode |-> "popup", fg |-> "#ff0000"],
           files |-> [file |-> EmptyFile, logo |-> File(l)]] :
            l \in {<<"l",".","p","n","g">>, <<"l",".","e","x","e">>}}

Requests == NamelessRequests \cup UrlRequests \cup LinkRequests \cup ImageRequests
            \cup OtherRequests \cup LandingRequests \cup FileRequests

\* QRCode rows created at most before and between the scans
MaxScannedCodes == 2

\* ScanEvent rows recorded at most, over several Codes
MaxScanEvents == 2

\* the Codes that are scanned: a redirect, a landing page, and a landing
\* page that fails to render after its scan was recorded (a video with no
\* URL)
ScannedRequests ==
    {Plain([name |-> <<"a">>, qr_type |-> "website", url |-> <<"h","t","t","p",":","/","/","x">>]),
     Plain([name |-> <<"a">>, qr_type |-> "wifi", ssid |-> <<"H","o","m","e">>,
            password |-> <<"s","e","c","r","e","t">>, mode |-> "landing"]),
     Plain([name |-> <<"a">>, qr_type |-> "video", mode |-> "landing"])}

\* QRCode rows created at most, of Codes whose target may be text
MaxTextCodes == 2

\* Codes whose target is, or looks like, a WiFi descriptor or a vCard: the
\* wifi and vcard types, and URLs that start with the prefixes scan tests,
\* in their case and in another; a Code with no target; a landing page
TextRequests ==
    {Plain([name |-> <<"a">>, qr_type |-> "wifi", ssid |-> <<"H","o","m","e">>,
            password |-> <<"s","e","c","r","e","t">>, security |-> <<"W","P","A">>]),
     Plain([name |-> <<"a">>, qr_type |-> "wifi"]),
     Plain([name |-> <<"a">>, qr_type |-> "wifi", mode |-> "landing"]),
     Plain([name |-> <<"a">>, qr_type |-> "vcard", fn |-> <<"A","l">>])}
    \cup {Plain([name |-> <<"a">>, qr_type |-> "website", url |-> u]) :
            u \in {<<>>, <<"W","I","F","I",":","x">>, <<"w","i","f","i",":","x">>,
                   <<"B","E","G","I","N",":","V","C","A","R","D","x">>}}

\* GET /s/<slug> requests handled at the same time
MaxScanners == 2

\* the scan requests being handled at the same time
Scanners == 1..MaxScanners

\* POST /create requests handled at the same time
MaxCreators == 3

\* the requests being handled at the same time
Creators == 1..MaxCreators

\* creations that race: one name, a name with the same slug, and the name
\* that slugifies to the first suffixed slug
RaceRequests ==
    {Plain([name |-> n, qr_type |-> "website", url |-> <<"h","t","t","p",":","/","/","x">>]) :
        n \in {<<"a">>, <<" ","A","!"," ">>, <<"a"," ","2">>}}

\* creations whose names share a slug, slugify to an issued suffixed slug,
\* or slugify to nothing
LoopRequests ==
    {Plain([name |-> n, qr_type |-> "website", url |-> <<"h","t","t","p",":","/","/","x">>]) :
        n \in {<<"a">>, <<"a"," ","2">>, <<"!">>}}

\* the <fmt> of a download: one _qr_bytes names, in capitals, and one it
\* does not
DownloadFormats == {<<"S","V","G">>, <<"g","i","f">>}

\* the formats the download route documents, one of them in capitals too
ImageFormats == {<<"p","n","g">>, <<"j","p","g">>, <<"w","e","b","p">>, <<"s","v","g">>,
                 <<"e","p","s">>, <<"p","d","f">>, <<"P","N","G">>}

\* QRCode rows created at most before and between the downloads
MaxStyledCodes == 2

\* creations that differ in the styling: a colour the imaging library knows
\* and one it does not, and no logo, a raster logo or an SVG logo
StyledRequests ==
    {[form |-> [name |-> <<"a">>, qr_type |-> "website", url |-> <<"h","t","t","p",":","/","/","x">>,
                fg |-> c],
      files |-> [file |-> EmptyFile, logo |-> l]] :
        c \in {"#ff0000", "#12"},
        l \in {EmptyFile, File(<<"l",".","p","n","g">>), File(<<"l",".","s","v","g">>)}}

\* the headers log_scan reads
Client == [ip |-> "203.0.113.7", ua |-> "Mozilla/5.0", referer |-> "none"]

ScanRequest(path) == [ip |-> Client.ip, ua |-> Client.ua, referer |-> Client.referer,
                      path |-> path]

\* ------------------------------------------------------------------------
\* src/app.py: _parse_ranges

Max(a, b) == IF a >= b THEN a ELSE b

Min(a, b) == IF a <= b THEN a ELSE b

\* the number a text of decimal digits writes
RECURSIVE DigitsValue(_)
DigitsValue(ds) ==
    IF ds = <<>> THEN 0
    ELSE 10 * DigitsValue(SubSeq(ds, 1, Len(ds) - 1)) + (IndexOf(Digits, ds[Len(ds)]) - 1)

\* int(x) of a str: [raised, value]; the white space around the number is
\* dropped, one sign may lead it, and what follows must be digits and
\* nothing else, or int raises ValueError
int(x) ==
    LET t == Strip(x)
        signed == t # <<>> /\ Head(t) \in {"-", "+"}
        ds == IF signed THEN Tail(t) ELSE t
    IN  IF ds = <<>> \/ \E i \in 1..Len(ds) : IndexOf(Digits, ds[i]) = 0
        THEN [raised |-> TRUE, value |-> 0]
        ELSE [raised |-> FALSE,
              value |-> IF signed /\ Head(t) = "-" THEN 0 - DigitsValue(ds) ELSE DigitsValue(ds)]

\* the elements of a set of numbers in increasing order
Ascending(S) ==
    [k \in 1..Cardinality(S) |-> CHOOSE x \in S : Cardinality({y \in S : y < x}) = k - 1]

\* the inner loop of _parse_ranges without the test for pages seen before
_parse_ranges_pages_unseen(result, start, end, total_pages) ==
    LET new == {i \in (start - 1)..(end - 1) : 0 <= i /\ i < total_pages}
    IN  IF new = {} THEN result ELSE result \o Ascending(new)

\* the inner loop of _parse_ranges: for i in range(start - 1, end), i is
\* appended when it is a page index and was not seen before (seen holds
\* what result holds)
_parse_ranges_pages(result, start, end, total_pages) ==
    LET new == {i \in (start - 1)..(end - 1) :
                    /\ 0 <= i /\ i < total_pages
                    /\ \A k \in 1..Len(result) : result[k] # i}
    IN  IF new = {} THEN result ELSE result \o Ascending(new)

\* start and end of one part, before they are clamped: [raised, start, end]
_parse_ranges_part(part, total_pages) ==
    IF IndexOf(part, "-") # 0
    THEN LET a == SubSeq(part, 1, IndexOf(part, "-") - 1)
             b == SubSeq(part, IndexOf(part, "-") + 1, Len(part))
             start == IF Strip(a) # <<>> THEN int(a) ELSE [raised |-> FALSE, value |-> 1]
             end == IF Strip(b) # <<>> THEN int(b) ELSE [raised |-> FALSE, value |-> total_pages]
         IN  [raised |-> start.raised \/ end.raised, start |-> start.value, end |-> end.value]
    ELSE [raised |-> int(part).raised, start |-> int(part).value, end |-> int(part).value]

\* the loop over the parts: [raised, value]
RECURSIVE _parse_ranges_loop(_, _, _)
_parse_ranges_loop(parts, result, total_pages) ==
    IF parts = <<>> THEN [raised |-> FALSE, value |-> result]
    ELSE LET se == _parse_ranges_part(Head(parts), total_pages)
         IN  IF se.raised THEN [raised |-> TRUE, value |-> <<>>]
             ELSE _parse_ranges_loop(Tail(parts),
                      _parse_ranges_pages(result, Max(1, se.start), Min(total_pages, se.end),
                                          total_pages),
                      total_pages)

\* _parse_ranges(ranges, total_pages): [raised, value]; raised is the
\* ValueError of int
_parse_ranges(ranges, total_pages) ==
    IF ranges = <<>> \/ Strip(ranges) = <<>>
    THEN [raised |-> FALSE,
          value |-> IF total_pages = 0 THEN <<>> ELSE [k \in 1..total_pages |-> k - 1]]
    ELSE _parse_ranges_loop(StripNonEmpty(Split(ranges, ",")), <<>>, total_pages)

\* the longest ranges text
MaxRangeLen == 4

\* the most pages of a document
MaxPages == 3

\* the characters of a ranges text
RangeAlphabet == {"1", "2", "-", ",", " "}

\* the ranges texts
RangeStrings == UNION {[1..n -> RangeAlphabet] : n \in 0..MaxRangeLen}

\* ------------------------------------------------------------------------
\* src/app.py: the PDF tools that take several files

\* the most files of one upload
MaxPdfFiles == 3

\* the most pages of an uploaded PDF
MaxPdfPages == 3

\* an uploaded file: the pages it has, or not a PDF the reader opens
PdfFiles ==
    {[readable |-> TRUE, pages |-> n] : n \in 0..MaxPdfPages}
    \cup {[readable |-> FALSE, pages |-> 0]}

\* request.files.getlist("pdfs")
PdfUploads == UNION {[1..n -> PdfFiles] : n \in 0..MaxPdfFiles}

\* the chunk field of the Combine form as text; "" is what int rejects
ChunkTexts == {<<"1">>, <<"2">>, <<"0">>, <<>>}

\* the loop field of the Combine form
LoopTexts == {"Yes", "No"}

\* the path _save_upload writes the k-th file of the request to
UploadPath(k) == [kind |-> "upload", k |-> k, i |-> 0]

\* the directory tempfile.mkdtemp makes
TmpDir == [kind |-> "dir", k |-> 0, i |-> 0]

\* the image file of page i of the k-th file, under the directory
ImagePath(k, i) == [kind |-> "image", k |-> k, i |-> i]

\* shutil.rmtree(tmpdir): the directory and what is under it are gone
rmtree(paths) == {p \in paths : p.kind = "upload"}

\* the pages one pass takes: from each queue in turn its first take pages
RECURSIVE combine_take(_, _, _)
combine_take(queues, f, chunk) ==
    IF f > Len(queues) THEN <<>>
    ELSE [k \in 1..Min(chunk, Len(queues[f].pages)) |-> <<f, queues[f].pages[k]>>]
         \o combine_take(queues, f + 1, chunk)

\* one pass that takes a single page from every queue, whatever the chunk
combine_pass_one_page(queues, out, chunk) ==
    [queues |-> [f \in 1..Len(queues) |->
                    [queues[f] EXCEPT !.pages = SubSeq(@, Min(1, Len(@)) + 1, Len(@))]],
     out |-> out \o combine_take(queues, 1, 1),
     progress_any |-> \E f \in 1..Len(queues) : queues[f].pages # <<>>]

\* one pass of the while loop of combine_interleave: every queue that has
\* pages gives its first min(chunk, len) pages to the writer
combine_pass(queues, out, chunk) ==
    [queues |-> [f \in 1..Len(queues) |->
                    [queues[f] EXCEPT !.pages = SubSeq(@, Min(chunk, Len(@)) + 1, Len(@))]],
     out |-> out \o combine_take(queues, 1, chunk),
     progress_any |-> \E f \in 1..Len(queues) : queues[f].pages # <<>>]

\* a request that is over
Finished(j, status) == [j EXCEPT !.pc = "done", !.status = status]

\* ------------------------------------------------------------------------
\* src/wrapper.app.py: the middlewares around the main app.  A response body
\* is a sequence of pieces: plain text, and the pieces the regular
\* expressions of the middlewares match or write.

\* the most pieces of a response body
MaxBodyPieces == 2

\* the pieces an application writes
BodyPieces == {"text", "qr_href", "noindex_meta", "head_close"}

\* the bytes of a piece: href="https://oneplacepdf-com-qr-generator.onrender.com/create",
\* href="/qr/create", <meta name="robots" content="noindex,nofollow">,
\* <meta name="robots" content="index,follow" />, </head>, a line break
PieceBytes(piece) ==
    CASE piece = "text" -> 4
      [] piece = "qr_href" -> 63
      [] piece = "local_href" -> 17
      [] piece = "noindex_meta" -> 47
      [] piece = "robots_allow" -> 45
      [] piece = "head_close" -> 7
      [] piece = "newline" -> 1

\* len(body)
RECURSIVE BodyLen(_)
BodyLen(body) == IF body = <<>> THEN 0 ELSE PieceBytes(Head(body)) + BodyLen(Tail(body))

\* pattern.sub(replacement, body): every piece the pattern matches is
\* replaced, or the first one only when first_only
RECURSIVE Sub(_, _, _, _)
Sub(body, piece, replacement, first_only) ==
    IF body = <<>> THEN <<>>
    ELSE IF Head(body) = piece
         THEN replacement \o (IF first_only THEN Tail(body)
                              ELSE Sub(Tail(body), piece, replacement, first_only))
         ELSE <<Head(body)>> \o Sub(Tail(body), piece, replacement, first_only)

\* the content types of the responses
ContentTypes == {<<"t","e","x","t","/","h","t","m","l",";"," ","c","h","a","r","s","e","t","=","u","t","f","-","8">>,
                 <<"a","p","p","l","i","c","a","t","i","o","n","/","p","d","f">>}

\* "text/html" in str(ctype).lower()
IsHtml(ctype) == Contains(Lower(ctype), <<"t","e","x","t","/","h","t","m","l">>)

\* what an application answers: start_response is called with the status
\* and the headers, and the body is returned
AppResponses ==
    {[status |-> st, ctype |-> ct, clen |-> BodyLen(b), body |-> b] :
        st \in {200, 404}, ct \in ContentTypes,
        b \in UNION {[1..n -> BodyPieces] : n \in 0..MaxBodyPieces}}

\* what reaches the server: start_response was called with the status and
\* the headers, and the body is what the iterable gave
Delivered(status, ctype, clen, body) ==
    [raised |-> FALSE, started |-> TRUE, status |-> status, ctype |-> ctype, clen |-> clen,
     body |-> body]

\* the iterable ends without a call of start_response and without a chunk
NothingDelivered ==
    [raised |-> FALSE, started |-> FALSE, status |-> 0, ctype |-> <<>>, clen |-> 0,
     body |-> <<>>]

\* the iterable raises
RaisedInstead ==
    [raised |-> TRUE, started |-> FALSE, status |-> 0, ctype |-> <<>>, clen |-> 0,
     body |-> <<>>]

\* _RewriteQrLink.__call__ run to its end around an application that is a
\* plain callable (the Flask app): the application has called cap when
\* the headers are read
_RewriteQrLink(resp) ==
    IF ~IsHtml(resp.ctype)
    THEN Delivered(resp.status, resp.ctype, resp.clen, resp.body)
    ELSE LET body == Sub(resp.body, "qr_href", <<"local_href">>, FALSE)
         IN  Delivered(resp.status, resp.ctype, BodyLen(body), body)

\* _AllowEditorIndexing.__call__ run to its end by the server.  The method
\* has a yield, so it is a generator: "return self.wsgi_app(...)" ends the
\* iteration and its value is dropped.  lazy says that the wrapped callable
\* is a generator function too, whose call runs none of its body: cap has
\* not been called when the headers are read, and captured["status"] is a
\* KeyError.  inner is what the wrapped application delivers when it runs
_AllowEditorIndexing(path, lazy, inner) ==
    IF path # <<"/","e","d","i","t","o","r">>
    THEN NothingDelivered
    ELSE IF lazy THEN RaisedInstead
    ELSE IF ~IsHtml(inner.ctype) THEN inner
    ELSE LET replaced == Sub(inner.body, "noindex_meta", <<"robots_allow">>, FALSE)
             body == IF replaced = inner.body
                     THEN Sub(inner.body, "head_close",
                              <<"robots_allow", "newline", "head_close">>, TRUE)
                     ELSE replaced
         IN  Delivered(inner.status, inner.ctype, BodyLen(body), body)

\* the path is under the mount point /qr
UnderQr(path) ==
    \/ path = <<"/","q","r">>
    \/ StartsWith(path, <<"/","q","r","/">>)

\* the composed application: the QR app under /qr, and for every other path
\* _AllowEditorIndexing(_RewriteQrLink(main_app))
wrapper_app(path, resp) ==
    IF UnderQr(path) THEN Delivered(resp.status, resp.ctype, resp.clen, resp.body)
    ELSE _AllowEditorIndexing(path, TRUE, _RewriteQrLink(resp))

\* the paths asked for
WsgiPaths == {<<"/">>, <<"/","e","d","i","t","o","r">>, <<"/","p","r","i","v","a","c","y">>, <<"/","q","r","/","c","r","e","a","t","e">>}

\* ------------------------------------------------------------------------
\* State

VARIABLES
    users,      \* the User table
    codes,      \* the QRCode table, in id order
    scans,      \* the ScanEvent table, in id order
    uploads,    \* the file names under UPLOAD_DIR
    pending,    \* what db.session holds uncommitted when a handler returns
    last,       \* the last request and its response
    inflight,   \* the POST /create requests being handled step by step
    scanners,   \* the GET /s/<slug> requests being handled step by step
    tmp,        \* the temporary files and directories of the PDF tools
    job,        \* the PDF tool request being handled
    parsed,     \* the last call of _parse_ranges and its result
    wsgi        \* the last request through the wrapper and what was delivered

vars == <<users, codes, scans, uploads, pending, last, inflight, scanners, tmp, job,
          parsed, wsgi>>

\* the state outside the registry, the scan log and the uploads
restVars == <<scanners, tmp, job, parsed, wsgi>>

\* the startup block without its test for an owner that is there
startup_always_add(us) ==
    Append(us, [id |-> Len(us) + 1, email |-> DEFAULT_OWNER_EMAIL])

\* the startup block on the User table: the owner with the default e-mail
\* is added if no row has that e-mail
startup(us) ==
    IF \E i \in 1..Len(us) : us[i].email = DEFAULT_OWNER_EMAIL
    THEN us
    ELSE Append(us, [id |-> Len(us) + 1, email |-> DEFAULT_OWNER_EMAIL])

\* the process has started on an empty store
Init ==
    /\ users = startup(<<>>)
    /\ codes = <<>>
    /\ scans = <<>>
    /\ uploads = {}
    /\ pending = <<>>
    /\ last = [op |-> "start"]
    /\ inflight = [p \in Creators |-> [pc |-> "idle"]]
    /\ scanners = [p \in Scanners |-> [pc |-> "idle"]]
    /\ tmp = {}
    /\ job = [pc |-> "idle"]
    /\ parsed = [op |-> "none"]
    /\ wsgi = [op |-> "none"]

\* owner.id of the startup block
DEFAULT_OWNER_ID ==
    users[CHOOSE i \in 1..Len(users) : users[i].email = DEFAULT_OWNER_EMAIL].id

\* the slugs a client asks for: those issued and one that never is
AskedSlugs == {codes[i].slug : i \in 1..Len(codes)} \cup {<<"z","z">>}

\* whether the insert of the ScanEvent goes through or fails; no insert is
\* tried for a slug no row has
StorageOutcomes(slug) == IF SlugTaken(codes, slug) THEN BOOLEAN ELSE {TRUE}

\* the draws of secrets.token_hex(3): made only when the name slugifies to
\* nothing
SlugDraws(req) ==
    IF "name" \in DOMAIN req.form /\ slugify(Strip(req.form["name"])) = <<>>
    THEN SlugTokens ELSE {None}

\* POST /create with a request of reqs, while fewer than cap rows exist
CreateFrom(reqs, cap) ==
    /\ Len(codes) < cap
    /\ \E req \in reqs, ft \in FileTokens :
        \E st \in SlugDraws(req) :
        \E r \in {create_post(req, [slug |-> st, file |-> ft, image |-> ft, logo |-> ft],
                              codes, uploads, DEFAULT_OWNER_ID)} :
            /\ codes' = r.codes
            /\ uploads' = r.uploads
            /\ last' = [op |-> "create", req |-> req, db_ok |-> TRUE, resp |-> r.resp,
                        payload |-> r.payload]
    /\ UNCHANGED <<users, scans, pending, inflight>>
    /\ UNCHANGED restVars

\* the process starts again on the store as it is
Startup ==
    /\ users' = startup(users)
    /\ last' = [op |-> "start"]
    /\ UNCHANGED <<codes, scans, uploads, pending, inflight>>
    /\ UNCHANGED restVars

\* POST /create, any type
Create == CreateFrom(Requests, MaxCodes)

\* POST /create, any name
CreateNamed == CreateFrom(NameRequests, MaxNamedCodes)

\* GET /s/<slug>, while fewer than cap ScanEvent rows exist
ScanUpTo(cap) ==
    /\ Len(scans) < cap
    /\ \E slug \in AskedSlugs :
        \E db_ok \in StorageOutcomes(slug) :
        \E r \in {scan(slug, ScanRequest(<<"/","s","/">> \o slug), db_ok, codes, scans)} :
            /\ scans' = r.scans
            /\ pending' = r.pending
            /\ last' = [op |-> "scan", req |-> [slug |-> slug], db_ok |-> db_ok,
                        resp |-> r.resp, payload |-> None]
    /\ UNCHANGED <<users, codes, uploads, inflight>>
    /\ UNCHANGED restVars

\* GET /s/<slug>
Scan == ScanUpTo(MaxScans)

\* GET /l/<slug>, while fewer than cap ScanEvent rows exist
LandingUpTo(cap) ==
    /\ Len(scans) < cap
    /\ \E slug \in AskedSlugs :
        \E db_ok \in StorageOutcomes(slug) :
        \E r \in {landing_page(slug, ScanRequest(<<"/","l","/">> \o slug), db_ok, codes, scans)} :
            /\ scans' = r.scans
            /\ pending' = r.pending
            /\ last' = [op |-> "landing", req |-> [slug |-> slug], db_ok |-> db_ok,
                        resp |-> r.resp, payload |-> None]
    /\ UNCHANGED <<users, codes, uploads, inflight>>
    /\ UNCHANGED restVars

\* GET /l/<slug>
Landing == LandingUpTo(MaxScans)

\* whether the logo file of the row with the slug opens as an image when
\* the download reads it: an SVG never does, any other file may or may not
\* (only the extension was tested when it was stored); FALSE without a logo
LogoReadable(slug) ==
    LET i == FindBySlug(codes, slug)
    IN  IF i = 0 THEN {FALSE}
        ELSE IF codes[i].logo_path = None THEN {FALSE}
        ELSE IF _safe_ext(codes[i].logo_path) = <<"s","v","g">> THEN {FALSE}
        ELSE BOOLEAN

\* GET /d/<slug>.<fmt> for the formats given
DownloadOf(fmts) ==
    /\ \E slug \in AskedSlugs, fmt \in fmts :
        \E logo_readable \in LogoReadable(slug) :
        \E r \in {download(slug, fmt, codes, logo_readable)} :
            last' = [op |-> "download",
                     req |-> [slug |-> slug, fmt |-> fmt, logo_readable |-> logo_readable],
                     db_ok |-> TRUE, resp |-> r, payload |-> None]
    /\ UNCHANGED <<users, codes, scans, uploads, pending, inflight>>
    /\ UNCHANGED restVars

\* GET /d/<slug>.<fmt>
Download == DownloadOf(DownloadFormats)

\* GET /code/<slug>
View ==
    /\ \E slug \in AskedSlugs :
        \E r \in {view_code(slug, codes, DEFAULT_OWNER_ID)} :
            last' = [op |-> "view", req |-> [slug |-> slug], db_ok |-> TRUE,
                     resp |-> r, payload |-> None]
    /\ UNCHANGED <<users, codes, scans, uploads, pending, inflight>>
    /\ UNCHANGED restVars

Next == Create \/ Scan \/ Landing

Spec == Init /\ [][Next]_vars

\* the registry alone, under creations that differ in the name
NextSlug == CreateNamed

SpecSlug == Init /\ [][NextSlug]_vars

\* POST /create with styling
CreateStyled == CreateFrom(StyledRequests, MaxStyledCodes)

\* GET /d/<slug>.<fmt>, a documented format
DownloadImage == DownloadOf(ImageFormats)

\* downloads of Codes that differ in the styling
NextDownload == CreateStyled \/ DownloadImage

SpecDownload == Init /\ [][NextDownload]_vars

\* POST /tool/combine-interleave up to the loop over the files
CombineStart ==
    /\ job.pc = "idle"
    /\ \E pdfs \in PdfUploads, chunk \in ChunkTexts, loop \in LoopTexts :
        LET j == [pc |-> "save", tool |-> "combine", pdfs |-> pdfs,
                  chunk |-> Max(1, int(chunk).value), loop |-> loop = "Yes", k |-> 1,
                  queues |-> <<>>, out |-> <<>>, passes |-> 0, status |-> 0]
        IN  job' = IF Len(pdfs) < 2 THEN Finished(j, 400)
                   ELSE IF int(chunk).raised THEN Finished(j, 500)
                   ELSE j
    /\ UNCHANGED <<users, codes, scans, uploads, pending, last, inflight, scanners, tmp,
                   parsed, wsgi>>

\* one round of "for fs in pdfs": the file is saved and the reader opens it;
\* the loop is before the try, so an exception of the reader ends the
\* request with nothing removed
CombineSave ==
    /\ job.pc = "save" /\ job.tool = "combine"
    /\ tmp' = tmp \cup {UploadPath(job.k)}
    /\ job' = IF ~job.pdfs[job.k].readable THEN Finished(job, 500)
              ELSE [job EXCEPT
                      !.queues = Append(@, [path |-> UploadPath(job.k),
                                            pages |-> IF job.pdfs[job.k].pages = 0 THEN <<>>
                                                      ELSE [n \in 1..job.pdfs[job.k].pages |-> n - 1]]),
                      !.k = @ + 1,
                      !.pc = IF job.k = Len(job.pdfs) THEN "loop" ELSE "save"]
    /\ UNCHANGED <<users, codes, scans, uploads, pending, last, inflight, scanners,
                   parsed, wsgi>>

\* one round of "while True"
CombinePass ==
    /\ job.pc = "loop"
    /\ \E r \in {combine_pass(job.queues, job.out, job.chunk)} :
        job' = [job EXCEPT !.queues = r.queues, !.out = r.out, !.passes = @ + 1,
                           !.pc = IF ~job.loop \/ ~r.progress_any THEN "finish" ELSE "loop"]
    /\ UNCHANGED <<users, codes, scans, uploads, pending, last, inflight, scanners, tmp,
                   parsed, wsgi>>

\* the document is written and sent; the finally block removes the files
\* of the queues
CombineFinish ==
    /\ job.pc = "finish" /\ job.tool = "combine"
    /\ tmp' = tmp \ {job.queues[f].path : f \in 1..Len(job.queues)}
    /\ job' = Finished(job, 200)
    /\ UNCHANGED <<users, codes, scans, uploads, pending, last, inflight, scanners,
                   parsed, wsgi>>

\* POST /tool/pdf-to-images up to the loop over the files
ImagesStart ==
    /\ job.pc = "idle"
    /\ \E pdfs \in PdfUploads :
        LET j == [pc |-> "save", tool |-> "images", pdfs |-> pdfs, chunk |-> 1, loop |-> FALSE,
                  k |-> 1, queues |-> <<>>, out |-> <<>>, passes |-> 0, status |-> 0]
        IN  /\ job' = IF Len(pdfs) = 0 THEN Finished(j, 400)
                      ELSE j
            /\ tmp' = IF Len(pdfs) = 0 THEN tmp ELSE tmp \cup {TmpDir}
    /\ UNCHANGED <<users, codes, scans, uploads, pending, last, inflight, scanners,
                   parsed, wsgi>>

\* one round of "for fs in pdfs" inside the try: the file is saved outside
\* the directory and opened, and its pages are written under the directory;
\* an exception runs the finally block, which removes the directory
ImagesFile ==
    /\ job.pc = "save" /\ job.tool = "images"
    /\ IF ~job.pdfs[job.k].readable
       THEN /\ tmp' = rmtree(tmp \cup {UploadPath(job.k)})
            /\ job' = Finished(job, 500)
       ELSE /\ tmp' = tmp \cup {UploadPath(job.k)}
                          \cup {ImagePath(job.k, i) : i \in 1..job.pdfs[job.k].pages}
            /\ job' = [job EXCEPT
                         !.out = @ \o [i \in 1..job.pdfs[job.k].pages |-> <<job.k, i>>],
                         !.k = @ + 1,
                         !.pc = IF job.k = Len(job.pdfs) THEN "finish" ELSE "save"]
    /\ UNCHANGED <<users, codes, scans, uploads, pending, last, inflight, scanners,
                   parsed, wsgi>>

\* the archive is written and sent; the finally block removes the directory
ImagesFinish ==
    /\ job.pc = "finish" /\ job.tool = "images"
    /\ tmp' = rmtree(tmp)
    /\ job' = Finished(job, 200)
    /\ UNCHANGED <<users, codes, scans, uploads, pending, last, inflight, scanners,
                   parsed, wsgi>>

\* one request to a PDF tool that takes several files
NextPdf ==
    \/ CombineStart \/ CombineSave \/ CombinePass \/ CombineFinish
    \/ ImagesStart \/ ImagesFile \/ ImagesFinish

SpecPdf == Init /\ [][NextPdf]_vars

\* a request to the composed application; resp is what the application the
\* path belongs to answers
WsgiRequest ==
    /\ \E path \in WsgiPaths, resp \in AppResponses :
        wsgi' = [op |-> "request", path |-> path, produced |-> resp,
                 delivered |-> wrapper_app(path, resp)]
    /\ UNCHANGED <<users, codes, scans, uploads, pending, last, inflight, scanners, tmp, job,
                   parsed>>

NextWsgi == WsgiRequest

SpecWsgi == Init /\ [][NextWsgi]_vars

\* a ranges text and a page count are given to _parse_ranges
InitParse ==
    /\ parsed \in [op : {"input"}, ranges : RangeStrings, total_pages : 0..MaxPages]
    /\ users = startup(<<>>)
    /\ codes = <<>>
    /\ scans = <<>>
    /\ uploads = {}
    /\ pending = <<>>
    /\ last = [op |-> "start"]
    /\ inflight = [p \in Creators |-> [pc |-> "idle"]]
    /\ scanners = [p \in Scanners |-> [pc |-> "idle"]]
    /\ tmp = {}
    /\ job = [pc |-> "idle"]
    /\ wsgi = [op |-> "none"]

\* the call of _parse_ranges
ParseRanges ==
    /\ parsed.op = "input"
    /\ parsed' = [op |-> "done", ranges |-> parsed.ranges, total_pages |-> parsed.total_pages,
                  out |-> _parse_ranges(parsed.ranges, parsed.total_pages)]
    /\ UNCHANGED <<users, codes, scans, uploads, pending, last, inflight, scanners, tmp, job,
                   wsgi>>

NextParse == ParseRanges

SpecParse == InitParse /\ [][NextParse]_vars

\* creations, and restarts of the process between them
NextOwner == CreateNamed \/ Startup

SpecOwner == Init /\ [][NextOwner]_vars

\* POST /create taken in the steps other requests can come between: every
\* query of the candidate loop and the insert are statements of their own.

\* lines 288-372: the request is read and the row prepared; nothing here
\* reads the QRCode table, so the row is the one create_post builds on an
\* empty table; slug = base_slug, i = 1
CreateBeginFrom(p, reqs) ==
    /\ inflight[p].pc = "idle"
    /\ \E req \in reqs, ft \in FileTokens :
        \E st \in SlugDraws(req) :
        \E r \in {create_post(req, [slug |-> st, file |-> ft, image |-> ft, logo |-> ft],
                              <<>>, uploads, DEFAULT_OWNER_ID)} :
            /\ r.resp.status = 302
            /\ uploads' = r.uploads
            /\ inflight' = [inflight EXCEPT ![p] =
                    [pc |-> "query", req |-> req, payload |-> r.payload, row |-> r.codes[1],
                     base_slug |-> r.codes[1].slug, i |-> 1]]
    /\ UNCHANGED <<users, codes, scans, pending, last>>
    /\ UNCHANGED restVars

\* the step with the requests that race
CreateBegin(p) == CreateBeginFrom(p, RaceRequests)

\* the step with the requests of the candidate loop
CreateLoopBegin(p) == CreateBeginFrom(p, LoopRequests)

\* one query of the loop that adds 2 to the counter when a row has the
\* candidate
CreateQuerySkipping(p) ==
    /\ inflight[p].pc = "query"
    /\ inflight' = [inflight EXCEPT ![p] =
            IF SlugTaken(codes, inflight[p].row.slug)
            THEN [@ EXCEPT !.i = @ + 2,
                           !.row.slug = inflight[p].base_slug \o <<"-">> \o DecStr(inflight[p].i + 2)]
            ELSE [@ EXCEPT !.pc = "insert"]]
    /\ UNCHANGED <<users, codes, scans, uploads, pending, last>>
    /\ UNCHANGED restVars

\* line 373, and 374 when a row has the candidate: one query of the loop
CreateQuery(p) ==
    /\ inflight[p].pc = "query"
    /\ inflight' = [inflight EXCEPT ![p] =
            IF SlugTaken(codes, inflight[p].row.slug)
            THEN [@ EXCEPT !.i = @ + 1,
                           !.row.slug = inflight[p].base_slug \o <<"-">> \o DecStr(inflight[p].i + 1)]
            ELSE [@ EXCEPT !.pc = "insert"]]
    /\ UNCHANGED <<users, codes, scans, uploads, pending, last>>
    /\ UNCHANGED restVars

\* lines 376-379: the insert with the slug the loop ended on; an
\* IntegrityError of the unique index is not caught and answers 500
CreateInsert(p) ==
    /\ inflight[p].pc = "insert"
    /\ \E added \in {add_and_commit(codes, [inflight[p].row EXCEPT !.id = Len(codes) + 1])} :
        \E resp \in {IF added.raised THEN Abort(500)
                     ELSE Redirect(<<"/","c","o","d","e","/">> \o inflight[p].row.slug, <<>>)} :
            /\ codes' = added.rows
            /\ inflight' = [inflight EXCEPT ![p] = [@ EXCEPT !.pc = "done"] @@ [resp |-> resp]]
            /\ last' = [op |-> "create", req |-> inflight[p].req, db_ok |-> TRUE,
                        resp |-> resp, payload |-> inflight[p].payload]
    /\ UNCHANGED <<users, scans, uploads, pending>>
    /\ UNCHANGED restVars

\* creations handled at the same time
NextRace == \E p \in Creators : CreateBegin(p) \/ CreateQuery(p) \/ CreateInsert(p)

SpecRace == Init /\ [][NextRace]_vars

\* creations whose candidate loops are followed query by query
NextLoop == \E p \in Creators : CreateLoopBegin(p) \/ CreateQuery(p) \/ CreateInsert(p)

SpecLoop == Init /\ [][NextLoop]_vars

\* GET /s/<slug> taken statement by statement, so that other requests come
\* between its lookup, its call of code_target, its log_scan and its answer.

\* line 434: the row is loaded, or the request ends with 404
ScanLookup(p) ==
    /\ scanners[p].pc = "idle"
    /\ \E slug \in AskedSlugs :
        \E i \in {FindBySlug(codes, slug)} :
            scanners' = [scanners EXCEPT ![p] =
                IF i = 0
                THEN [pc |-> "done", slug |-> slug, resp |-> Abort(404)]
                ELSE [pc |-> scan_next("lookup"), slug |-> slug, qr |-> codes[i]]]
    /\ UNCHANGED <<users, codes, scans, uploads, pending, last, inflight>>
    /\ UNCHANGED <<tmp, job, parsed, wsgi>>

\* line 435, first statement: target = code_target(qr)
ScanResolve(p) ==
    /\ scanners[p].pc = "resolve"
    /\ scanners' = [scanners EXCEPT ![p] =
            [@ EXCEPT !.pc = scan_next("resolve")] @@ [target |-> code_target(scanners[p].qr)]]
    /\ UNCHANGED <<users, codes, scans, uploads, pending, last, inflight>>
    /\ UNCHANGED <<tmp, job, parsed, wsgi>>

\* line 435, second statement: log_scan(qr.id), in the session of this
\* request
ScanRecord(p) ==
    /\ scanners[p].pc = "record"
    /\ \E db_ok \in BOOLEAN :
        \E log \in {log_scan(scans, scanners[p].qr.id,
                              ScanRequest(<<"/","s","/">> \o scanners[p].slug), db_ok)} :
            /\ scans' = log.scans
            /\ pending' = log.pending
            /\ scanners' = [scanners EXCEPT ![p] =
                    [@ EXCEPT !.pc = scan_next("record")]
                    @@ [db_ok |-> db_ok, raised |-> log.raised]]
    /\ UNCHANGED <<users, codes, uploads, last, inflight>>
    /\ UNCHANGED <<tmp, job, parsed, wsgi>>

\* lines 436-439: the answer, which scan gives for the row and the outcome
\* of log_scan this request had
ScanRespond(p) ==
    /\ scanners[p].pc = "respond"
    /\ scanners' = [scanners EXCEPT ![p] =
            [@ EXCEPT !.pc = scan_next("respond")]
            @@ [resp |-> scan(scanners[p].slug, ScanRequest(<<"/","s","/">> \o scanners[p].slug),
                              scanners[p].db_ok, <<scanners[p].qr>>, <<>>).resp]]
    /\ UNCHANGED <<users, codes, scans, uploads, pending, last, inflight>>
    /\ UNCHANGED <<tmp, job, parsed, wsgi>>

\* POST /create of a Code whose target may be text
CreateText == CreateFrom(TextRequests, MaxTextCodes)

\* scans of Codes whose target may be text
NextText == CreateText \/ Scan

SpecText == Init /\ [][NextText]_vars

\* POST /create of a Code that is then scanned
CreateScanned == CreateFrom(ScannedRequests, MaxScannedCodes)

ScanMany == ScanUpTo(MaxScanEvents)

LandingMany == LandingUpTo(MaxScanEvents)

\* every route that reads a Code, over a few Codes and several scans
NextScan == CreateScanned \/ ScanMany \/ LandingMany \/ Download \/ View

SpecScan == Init /\ [][NextScan]_vars

\* scans handled at the same time, of Codes created before and between them
NextScanRace ==
    \/ CreateScanned
    \/ \E p \in Scanners : ScanLookup(p) \/ ScanResolve(p) \/ ScanRecord(p) \/ ScanRespond(p)

SpecScanRace == Init /\ [][NextScanRace]_vars

\* ------------------------------------------------------------------------
\* Properties

Rows == 1..Len(codes)

Payload(i) == json_loads(codes[i].data_json)

\* C1: after any sequence of POST /create requests, all persisted Codes
\* have pairwise distinct slugs.
C1_DistinctSlugs ==
    \A i, j \in Rows : i # j => codes[i].slug # codes[j].slug

\* C1 witness: a name was created twice, and a third name slugifies to the
\* suffixed slug the second creation was given.
C1_Witness ==
    \E i, j, k \in Rows :
        /\ i < j /\ j < k
        /\ codes[i].name = codes[j].name
        /\ codes[j].slug # slugify(codes[j].name)
        /\ slugify(codes[k].name) = codes[j].slug

\* how many of the rows 1..j carry the name of row j
SameNameUpTo(j) == Cardinality({i \in 1..j : codes[i].name = codes[j].name})

Suffixed(base, k) == base \o <<"-">> \o DecStr(k)

\* C2 as stated, for the names that slugify to something: the k-th creation
\* under one name, k >= 2, gets the slug <slugified name>-k, and creations
\* under one name get distinct slugs.
C2_KthCreationGetsSuffixK ==
    \A j \in Rows :
        /\ (SameNameUpTo(j) >= 2 /\ slugify(codes[j].name) # <<>>) =>
              codes[j].slug = Suffixed(slugify(codes[j].name), SameNameUpTo(j))
        /\ \A i \in 1..(j - 1) :
              codes[i].name = codes[j].name => codes[i].slug # codes[j].slug

\* C2 amended: creations under one name get distinct slugs; when the name
\* slugifies to a non-empty base, a later creation gets <base>-k for the
\* smallest k >= 2 whose slug no Code holds, and k is the number of
\* creations under that name so far provided no Code created under another
\* name holds <base> or a suffixed <base>-m.
C2_SuffixSmallestFree ==
    \A j \in Rows :
        LET name == codes[j].name
            base == slugify(name)
            earlier == {codes[i].slug : i \in 1..(j - 1)}
            family == {base} \cup {Suffixed(base, m) : m \in 2..(j + 1)}
        IN  /\ \A i \in 1..(j - 1) : codes[i].name = name => codes[i].slug # codes[j].slug
            /\ (base # <<>> /\ SameNameUpTo(j) >= 2) =>
                  /\ \E k \in 2..j :
                        /\ codes[j].slug = Suffixed(base, k)
                        /\ codes[j].slug \notin earlier
                        /\ base \in earlier
                        /\ \A m \in 2..(k - 1) : Suffixed(base, m) \in earlier
                  /\ (\A i \in 1..(j - 1) :
                          codes[i].name # name => codes[i].slug \notin family)
                     => codes[j].slug = Suffixed(base, SameNameUpTo(j))

\* C2 witness: the third creation under one name got <base>-3.
C2_Witness ==
    \E j \in Rows :
        /\ SameNameUpTo(j) = 3
        /\ slugify(codes[j].name) # <<>>
        /\ codes[j].slug = Suffixed(slugify(codes[j].name), 3)

\* the slug in the Location of the redirect create answers with
CreatedSlug == SubSeq(last.resp.location, 7, Len(last.resp.location))

\* C3: after a create that succeeded, looking up the returned slug finds a
\* Code with the type that was submitted and, decoded, the payload that was
\* built.
C3_CreateThenLookup ==
    (last.op = "create" /\ last.resp.status = 302) =>
        LET i == FindBySlug(codes, CreatedSlug)
        IN  /\ i # 0
            /\ codes[i].qr_type = last.req.form["qr_type"]
            /\ json_loads(codes[i].data_json) = last.payload

\* C3 witness: a links Code with two parsed links was created, and a
\* website Code with no URL (a null in the payload).
C3_Witness ==
    /\ last.op = "create" /\ last.resp.status = 302
    /\ \/ last.req.form["qr_type"] = "links" /\ Len(last.payload.links) = 2
       \/ last.req.form["qr_type"] = "website" /\ last.payload.url = None

\* C4 as stated: in redirect mode a links or social Code with a non-empty
\* link list resolves to the URL of its first link.
C4_FirstLinkIsTarget ==
    \A i \in Rows :
        (/\ codes[i].mode = "redirect"
         /\ codes[i].qr_type \in {"links", "social"}
         /\ Len(Payload(i).links) > 0)
        => code_target(codes[i]) = Payload(i).links[1].url

\* C5 as stated: in redirect mode the resolver returns a non-empty target
\* or the sentinel, never an empty string or null.
C5_TargetNeverEmpty ==
    \A i \in Rows :
        codes[i].mode = "redirect" =>
            /\ code_target(codes[i]) # None
            /\ code_target(codes[i]) # <<>>

EmptyLinks(i) == codes[i].qr_type = "links" /\ Len(Payload(i).links) = 0

\* the row GET /s/<slug> or GET /l/<slug> last looked up, 0 when none
LastFound == FindBySlug(codes, last.req.slug)

\* C6 as stated: a links Code with an empty link list resolves to "#", and
\* GET /s/<slug> for it redirects to "#".
C6_EmptyLinksResolveToSentinel ==
    /\ \A i \in Rows : EmptyLinks(i) => code_target(codes[i]) = <<"#">>
    /\ (last.op = "scan" /\ LastFound # 0 /\ EmptyLinks(LastFound)) =>
          /\ last.resp.status = 302
          /\ last.resp.location = <<"#">>

\* C6 amended: a links Code with an empty link list whose mode is not
\* landing resolves to "#" and GET /s/<slug> redirects to "#"; in landing
\* mode it resolves to its landing page and GET /s/<slug> redirects there;
\* in no mode is the answer an HTTP error or an empty target.
C6_EmptyLinksByMode ==
    /\ \A i \in Rows :
          EmptyLinks(i) =>
              code_target(codes[i]) =
                  IF codes[i].mode = "landing"
                  THEN HostUrl \o <<"/", "l", "/">> \o codes[i].slug
                  ELSE <<"#">>
    /\ (last.op = "scan" /\ LastFound # 0 /\ EmptyLinks(LastFound)) =>
          /\ last.resp.status = 302
          /\ last.resp.location =
                  IF codes[LastFound].mode = "landing"
                  THEN <<"/", "l", "/">> \o last.req.slug
                  ELSE <<"#">>

\* C6 witness: a redirect-mode links Code with no links was scanned.
C6_Witness ==
    /\ last.op = "scan" /\ LastFound # 0 /\ EmptyLinks(LastFound)
    /\ codes[LastFound].mode = "redirect"
    /\ last.resp.location = <<"#">>

\* the file field carries a file whose extension save_upload refuses
HasBadUpload(req) ==
    /\ Truthy(FilesGet(req.files, "file").filename)
    /\ _safe_ext(FilesGet(req.files, "file").filename) \notin ALLOWED_ANY

\* C7 as stated: a create whose uploaded file has a disallowed extension
\* is answered with the create form and a message, not a server error.
C7_BadExtensionRerendersForm ==
    (last.op = "create" /\ HasBadUpload(last.req)) =>
        /\ last.resp.status \in {200, 302}
        /\ last.resp.flashed # <<>>

\* a create request that fails validation: a disallowed extension, no name,
\* or a URL-backed type with neither a URL nor a file
FailsValidation(req) ==
    \/ HasBadUpload(req)
    \/ "name" \notin DOMAIN req.form
    \/ Strip(req.form["name"]) = <<>>
    \/ /\ req.form["qr_type"] \in UrlTypes
       /\ Strip(Get(req.form, "url", <<>>)) = <<>>
       /\ ~Truthy(FilesGet(req.files, "file").filename)

\* C8 as stated: a create that fails validation leaves the set of Codes as
\* it was.
C8_InvalidCreatePersistsNothing ==
    [][(last'.op = "create" /\ FailsValidation(last'.req)) => codes' = codes]_vars

\* C9 as stated: every persisted Code has one of the fifteen types and the
\* mode redirect or landing.
C9_TypeAndModeEnumerated ==
    \A i \in Rows :
        /\ codes[i].qr_type \in QRTypes
        /\ codes[i].mode \in Modes

\* the response of the last scan or landing request had the ScanEvent been
\* stored, computed on the tables as they were before it
ResponseIfStored ==
    IF last'.op = "scan"
    THEN scan(last'.req.slug, ScanRequest(<<"/", "s", "/">> \o last'.req.slug),
              TRUE, codes, scans).resp
    ELSE landing_page(last'.req.slug, ScanRequest(<<"/", "l", "/">> \o last'.req.slug),
                      TRUE, codes, scans).resp

\* C10: when storing the ScanEvent fails during GET /s/<slug> or
\* GET /l/<slug>, no ScanEvent is added or left pending, and the response
\* is the one the request gives when the ScanEvent is stored.
C10_ScanRecordingNeverRaises ==
    [][(last'.op \in {"scan", "landing"} /\ ~last'.db_ok) =>
          /\ scans' = scans
          /\ pending' = <<>>
          /\ last'.resp = ResponseIfStored]_vars

\* C10 witness: a scan or landing request of an existing Code was answered
\* while storing its ScanEvent failed.
C10_Witness ==
    /\ last.op \in {"scan", "landing"}
    /\ ~last.db_ok
    /\ LastFound # 0
    /\ last.resp.status \in {200, 302}

\* C11: every GET /s/<slug> or GET /l/<slug> of an existing Code with
\* working storage appends exactly one ScanEvent, which references that
\* Code; and no request updates or deletes a ScanEvent already recorded.
C11_ScanEventsAppendOnly ==
    [][/\ Len(scans') >= Len(scans)
       /\ \A k \in 1..Len(scans) : scans'[k] = scans[k]
       /\ (/\ last'.op \in {"scan", "landing"}
           /\ SlugTaken(codes, last'.req.slug)
           /\ last'.db_ok)
          => /\ Len(scans') = Len(scans) + 1
             /\ scans'[Len(scans')].code_id = codes[FindBySlug(codes, last'.req.slug)].id]_vars

\* C11 witness: one Code was resolved twice and both ScanEvents are there,
\* the second just appended.
C11_Witness ==
    /\ last.op \in {"scan", "landing"}
    /\ last.db_ok
    /\ Len(scans) = 2
    /\ scans[1].code_id = scans[2].code_id
    /\ scans[2].code_id = codes[LastFound].id

\* C12: GET /s/<slug>, GET /l/<slug> and GET /d/<slug>.<fmt> of a slug no
\* Code has answer 404 and change nothing: no ScanEvent, no Code, no file.
C12_UnknownSlugIs404 ==
    [][(/\ last'.op \in {"scan", "landing", "download"}
        /\ ~SlugTaken(codes, last'.req.slug))
       => /\ last'.resp.status = 404
          /\ UNCHANGED <<users, codes, scans, uploads, pending>>]_vars

\* C12 witness: with a Code and a ScanEvent stored, a download of an unknown
\* slug was answered 404.
C12_Witness ==
    /\ last.op = "download"
    /\ ~SlugTaken(codes, last.req.slug)
    /\ last.resp.status = 404
    /\ Len(codes) > 0
    /\ Len(scans) > 0

\* C13: in redirect mode a Code of a URL-backed type resolves to the URL
\* its payload stores; an images Code to its first stored image, or "#"
\* when it stores none; a business Code to its stored website, or "#" when
\* that is unset.
C13_RedirectTargets ==
    \A i \in Rows :
        codes[i].mode = "redirect" =>
            LET t == codes[i].qr_type
                p == Payload(i)
                target == code_target(codes[i])
            IN  /\ t \in UrlTypes => target = p.url
                /\ t = "images" =>
                      target = IF Len(p.images) > 0 THEN p.images[1] ELSE <<"#">>
                /\ t = "business" =>
                      target = IF p.website = None \/ p.website = <<>>
                               THEN <<"#">> ELSE p.website

\* C13 witness: a redirect-mode images Code with several images resolves to
\* the first of them.
C13_Witness ==
    \E i \in Rows :
        /\ codes[i].mode = "redirect"
        /\ codes[i].qr_type = "images"
        /\ Len(Payload(i).images) >= 2
        /\ Payload(i).images[1] # Payload(i).images[Len(Payload(i).images)]
        /\ code_target(codes[i]) = Payload(i).images[1]

\* C14 as stated: in redirect mode a wifi Code resolves to
\* WIFI:T:<security>;S:<ssid>;P:<password>;; with the values its payload
\* stores, WPA standing for a security that is unset and nothing for an
\* ssid or password that is unset.
C14_WifiDescriptor ==
    \A i \in Rows :
        (codes[i].mode = "redirect" /\ codes[i].qr_type = "wifi") =>
            LET p == Payload(i)
                stored(k, default) ==
                    IF k \in DOMAIN p /\ p[k] # None THEN p[k] ELSE default
            IN  code_target(codes[i]) =
                    <<"W", "I", "F", "I", ":", "T", ":">> \o stored("security", <<"W", "P", "A">>)
                    \o <<";", "S", ":">> \o stored("ssid", <<>>)
                    \o <<";", "P", ":">> \o stored("password", <<>>)
                    \o <<";", ";">>

\* C15: in redirect mode a vcard Code whose payload has vcard_text set
\* resolves to that stored text; for the Code a create has just stored this
\* is the text payload_for built from the form.
C15_VCardTextVerbatim ==
    /\ \A i \in Rows :
          (/\ codes[i].mode = "redirect"
           /\ codes[i].qr_type = "vcard"
           /\ Truthy(Get(Payload(i), "vcard_text", None)))
          => code_target(codes[i]) = Payload(i).vcard_text
    /\ (/\ last.op = "create"
        /\ last.resp.status = 302
        /\ last.req.form["qr_type"] = "vcard"
        /\ Get(last.req.form, "mode", "redirect") = "redirect")
       => code_target(codes[FindBySlug(codes, CreatedSlug)]) = last.payload.vcard_text

\* C15 witness: a vcard Code with a name and a phone number was created in
\* redirect mode and resolves to a vCard block that carries them.
C15_Witness ==
    /\ last.op = "create"
    /\ last.resp.status = 302
    /\ last.req.form["qr_type"] = "vcard"
    /\ "fn" \in DOMAIN last.req.form
    /\ \E i \in Rows :
          /\ codes[i].mode = "redirect"
          /\ Contains(code_target(codes[i]), <<"\n", "F", "N", ":">> \o last.req.form["fn"] \o <<"\n">>)
          /\ StartsWith(code_target(codes[i]), <<"B", "E", "G", "I", "N", ":", "V", "C", "A", "R", "D">>)

\* C16: a Code in landing mode resolves to its landing page whatever its
\* type and payload, and GET /s/<slug> for it redirects to /l/<slug>.
C16_LandingModeResolvesToLandingPage ==
    /\ \A i \in Rows :
          codes[i].mode = "landing" =>
              code_target(codes[i]) = HostUrl \o <<"/", "l", "/">> \o codes[i].slug
    /\ (last.op = "scan" /\ LastFound # 0 /\ codes[LastFound].mode = "landing") =>
          /\ last.resp.status = 302
          /\ last.resp.location = <<"/", "l", "/">> \o codes[LastFound].slug

\* C16 witness: a wifi or vcard Code in landing mode was scanned and the
\* answer was the redirect to its landing page.
C16_Witness ==
    /\ last.op = "scan"
    /\ LastFound # 0
    /\ codes[LastFound].mode = "landing"
    /\ codes[LastFound].qr_type \in {"wifi", "vcard"}
    /\ last.resp.status = 302

\* C17: when the target of the Code GET /s/<slug> finds begins with WIFI:
\* or BEGIN:VCARD, the answer is that text in a page, not a redirect; this
\* is so for every wifi and every vcard Code in redirect mode.
C17_TextTargetsRenderedLiterally ==
    (last.op = "scan" /\ LastFound # 0) =>
        LET qr == codes[LastFound]
            target == code_target(qr)
            textual == \/ StartsWith(target, <<"W", "I", "F", "I", ":">>)
                       \/ StartsWith(target, <<"B", "E", "G", "I", "N", ":", "V", "C", "A", "R", "D">>)
        IN  /\ textual =>
                  /\ last.resp.status = 200
                  /\ last.resp.location = None
                  /\ last.resp.body = <<"<", "p", "r", "e", ">">> \o target \o <<"<", "/", "p", "r", "e", ">">>
            /\ (qr.mode = "redirect" /\ qr.qr_type \in {"wifi", "vcard"}) =>
                  textual /\ last.resp.status = 200

\* C17 witness: a website Code whose URL begins with WIFI: was scanned and
\* answered with the text.
C17_Witness ==
    /\ last.op = "scan"
    /\ LastFound # 0
    /\ codes[LastFound].qr_type = "website"
    /\ StartsWith(code_target(codes[LastFound]), <<"W", "I", "F", "I", ":">>)
    /\ last.resp.status = 200

\* C19: no request changes a Code already stored: over every step, every
\* row of the QRCode table keeps its slug, type, payload, mode, colours,
\* logo, name and owner, and no row is removed.
C19_CodesReadOnly ==
    [][/\ Len(codes') >= Len(codes)
       /\ \A i \in 1..Len(codes) : codes'[i] = codes[i]]_vars

\* C19 witness: after a Code was scanned, a second Code was created under
\* the same name, and the first is still there.
C19_Witness ==
    /\ last.op = "create"
    /\ last.resp.status = 302
    /\ Len(codes) = 2
    /\ codes[1].name = codes[2].name
    /\ Len(scans) > 0

\* C20: however the queries and inserts of POST /create requests handled
\* at the same time interleave, the QRCode table never holds two rows with
\* one slug.
C20_NoDuplicateSlugUnderRace ==
    Cardinality({codes[i].slug : i \in Rows}) = Len(codes)

\* C20 witness: two requests passed the check with the same slug; one
\* inserted its row and the other was refused by the unique index.
C20_Witness ==
    \E p, q \in Creators :
        /\ inflight[p].pc = "done" /\ inflight[q].pc = "done"
        /\ inflight[p].row.slug = inflight[q].row.slug
        /\ inflight[p].resp.status = 302
        /\ inflight[q].resp.status = 500
        /\ Len(codes) = 1

\* the scanners that got past log_scan for the Code with this id, with the
\* ScanEvent stored
Recorded(id) ==
    {p \in Scanners : /\ scanners[p].pc \in {"respond", "done"}
                      /\ "db_ok" \in DOMAIN scanners[p]
                      /\ scanners[p].db_ok
                      /\ scanners[p].qr.id = id}

\* C21: however the statements of simultaneous GET /s/<slug> requests
\* interleave, every Code has as many ScanEvents as requests recorded it
\* with working storage, the requests for one Code compute the same target
\* and get the same answer, and the Code they loaded is the Code stored.
C21_ConcurrentScansAreSafe ==
    /\ \A i \in Rows :
          Cardinality({k \in 1..Len(scans) : scans[k].code_id = codes[i].id})
              = Cardinality(Recorded(codes[i].id))
    /\ \A p, q \in Scanners :
          ("qr" \in DOMAIN scanners[p] /\ "qr" \in DOMAIN scanners[q]
           /\ scanners[p].slug = scanners[q].slug) =>
              /\ scanners[p].qr = codes[FindBySlug(codes, scanners[p].slug)]
              /\ ("target" \in DOMAIN scanners[p] /\ "target" \in DOMAIN scanners[q]) =>
                    scanners[p].target = scanners[q].target
              /\ (scanners[p].pc = "done" /\ scanners[q].pc = "done") =>
                    scanners[p].resp = scanners[q].resp

\* C21 witness: two requests for one Code had both recorded their scan
\* before either answered, and the Code has two ScanEvents.
C21_Witness ==
    \E p, q \in Scanners :
        /\ p # q
        /\ scanners[p].pc = "respond" /\ scanners[q].pc = "respond"
        /\ scanners[p].qr.id = scanners[q].qr.id
        /\ scanners[p].db_ok /\ scanners[q].db_ok
        /\ Cardinality({k \in 1..Len(scans) : scans[k].code_id = scanners[p].qr.id}) = 2

\* C29: within GET /s/<slug> a ScanEvent is appended only by a request that
\* has found its Code and computed its target; a request that ends in the
\* lookup appends none; and a request for an existing slug is answered only
\* after its call of log_scan.
C29_ScanStepsInOrder ==
    [][/\ scans' # scans =>
             \E p \in Scanners :
                 /\ scanners[p].pc = "record"
                 /\ scanners'[p].pc # "record"
                 /\ "qr" \in DOMAIN scanners[p]
                 /\ "target" \in DOMAIN scanners[p]
       /\ \A p \in Scanners :
             /\ (scanners[p].pc = "idle" /\ scanners'[p].pc = "done") =>
                   /\ scanners'[p].resp.status = 404
                   /\ scans' = scans
             /\ ("resp" \in DOMAIN scanners'[p] /\ scanners'[p].resp.status # 404) =>
                   /\ "raised" \in DOMAIN scanners'[p]
                   /\ "target" \in DOMAIN scanners'[p]]_vars

\* C29 witness: a request was answered with a redirect after its ScanEvent
\* was stored, and another ended in the lookup with 404.
C29_Witness ==
    \E p, q \in Scanners :
        /\ scanners[p].pc = "done" /\ scanners[p].resp.status = 302 /\ scanners[p].db_ok
        /\ scanners[q].pc = "done" /\ scanners[q].resp.status = 404
        /\ Len(scans) = 1

\* C22: after every step, restarts of the process included, each Code's
\* owner_id is the id of exactly one User, exactly one User has the default
\* e-mail, and no User row was changed or removed by the step.
C22_OneOwnerAcrossRestarts ==
    [][/\ \A i \in 1..Len(codes') :
             Cardinality({u \in 1..Len(users') : users'[u].id = codes'[i].owner_id}) = 1
       /\ Cardinality({u \in 1..Len(users') : users'[u].email = DEFAULT_OWNER_EMAIL}) = 1
       /\ Len(users') >= Len(users)
       /\ \A u \in 1..Len(users) : users'[u] = users[u]]_vars

\* C22 witness: the process started again on a store that holds Codes, and
\* the one owner is the owner of all of them.
C22_Witness ==
    /\ last.op = "start"
    /\ Len(codes) >= 2
    /\ Len(users) = 1
    /\ \A i \in Rows : codes[i].owner_id = users[1].id

\* the format a file extension names, and its MIME type
FormatOfExtension ==
    [f \in {Lower(x) : x \in ImageFormats} |->
        IF f = <<"p","n","g">> THEN [format |-> "PNG", mime |-> "image/png"]
        ELSE IF f = <<"j","p","g">> THEN [format |-> "JPEG", mime |-> "image/jpeg"]
        ELSE IF f = <<"w","e","b","p">> THEN [format |-> "WEBP", mime |-> "image/webp"]
        ELSE IF f = <<"s","v","g">> THEN [format |-> "SVG", mime |-> "image/svg+xml"]
        ELSE IF f = <<"e","p","s">> THEN [format |-> "EPS", mime |-> "application/postscript"]
        ELSE [format |-> "PDF", mime |-> "application/pdf"]]

\* the last request was a download of an existing slug in a documented format
DownloadedImage ==
    /\ last.op = "download"
    /\ FindBySlug(codes, last.req.slug) # 0
    /\ Lower(last.req.fmt) \in DOMAIN FormatOfExtension

\* C23: a download of an existing slug in one of the formats png, jpg, webp,
\* svg, eps and pdf succeeds with the image of the scan URL written in that
\* format, the MIME type of that format and a download name <slug>.<format>.
C23_DownloadInRequestedFormat ==
    DownloadedImage =>
        LET f == Lower(last.req.fmt)
        IN  /\ last.resp.status = 200
            /\ last.resp.body.mimetype = FormatOfExtension[f].mime
            /\ last.resp.body.payload.format = FormatOfExtension[f].format
            /\ last.resp.body.payload.image.data = HostUrl \o <<"/","s","/">> \o last.req.slug
            /\ last.resp.body.download_name = last.req.slug \o <<".">> \o f

\* C24: when the logo of the Code cannot be opened while the image is
\* composed, the download succeeds with the image in the Code's colours and
\* without the logo.
C24_LogoFailureDegrades ==
    (/\ DownloadedImage
     /\ Lower(last.req.fmt) # <<"s","v","g">>
     /\ LET qr == codes[FindBySlug(codes, last.req.slug)]
        IN  /\ qr.logo_path # None
            /\ qr.fg \in ImageColorKnown /\ qr.bg \in ImageColorKnown
     /\ ~last.req.logo_readable)
    => LET qr == codes[FindBySlug(codes, last.req.slug)]
       IN  /\ last.resp.status = 200
           /\ last.resp.body.payload.image =
                  [data |-> HostUrl \o <<"/","s","/">> \o qr.slug,
                   fg |-> qr.fg, bg |-> qr.bg, logo |-> FALSE]

\* C24 witness: a PDF download of a Code with a raster logo that does not
\* open succeeded, and the image has no logo.
C24_Witness ==
    /\ DownloadedImage
    /\ last.req.fmt = <<"p","d","f">>
    /\ codes[FindBySlug(codes, last.req.slug)].logo_path # None
    /\ _safe_ext(codes[FindBySlug(codes, last.req.slug)].logo_path) = <<"p","n","g">>
    /\ ~last.req.logo_readable
    /\ last.resp.status = 200
    /\ ~last.resp.body.payload.image.logo

\* the parts of the ranges text of the last call, and the pages (from 1)
\* each names once clamped to the document
ParsedParts == StripNonEmpty(Split(parsed.ranges, ","))

PartNames(k, page) ==
    LET se == _parse_ranges_part(ParsedParts[k], parsed.total_pages)
    IN  Max(1, se.start) <= page /\ page <= Min(parsed.total_pages, se.end)

\* the first part that names the page with the index
FirstPart(index) ==
    CHOOSE k \in 1..Len(ParsedParts) :
        /\ PartNames(k, index + 1)
        /\ \A j \in 1..(k - 1) : ~PartNames(j, index + 1)

\* C27: when _parse_ranges returns, its result holds page indices from 0 to
\* total_pages - 1 only and none twice; for a blank text it is all indices in
\* order; otherwise it holds exactly the indices some part names (ends
\* clamped to the document, an open end standing for the first or the last
\* page), ordered by the first part that names them and, within a part,
\* upwards.
C27_ParseRangesResult ==
    (parsed.op = "done" /\ ~parsed.out.raised) =>
        LET r == parsed.out.value
            n == parsed.total_pages
        IN  /\ \A k \in 1..Len(r) : r[k] \in 0..(n - 1)
            /\ \A k, l \in 1..Len(r) : k # l => r[k] # r[l]
            /\ Strip(parsed.ranges) = <<>> =>
                  /\ Len(r) = n
                  /\ \A k \in 1..n : r[k] = k - 1
            /\ Strip(parsed.ranges) # <<>> =>
                  /\ {r[k] : k \in 1..Len(r)}
                        = {i \in 0..(n - 1) : \E k \in 1..Len(ParsedParts) : PartNames(k, i + 1)}
                  /\ \A k, l \in 1..Len(r) :
                        k < l => \/ FirstPart(r[k]) < FirstPart(r[l])
                                 \/ FirstPart(r[k]) = FirstPart(r[l]) /\ r[k] < r[l]

\* C27 witness: a later part with an open end names a page an earlier part
\* named; the result keeps the earlier place and is not in page order.
C27_Witness ==
    /\ parsed.op = "done"
    /\ ~parsed.out.raised
    /\ parsed.ranges = <<"2", ",", "1", "-">>
    /\ parsed.total_pages = 3
    /\ parsed.out.value = <<1, 0, 2>>

\* C25: once a PDF tool request is over, with whatever status, no temporary
\* file or directory it made is left.
C25_NoTemporaryFileLeft ==
    job.pc = "done" => tmp = {}

\* the pages of the files of the request, as <<file, page index>>
UploadedPages ==
    UNION {{<<f, i>> : i \in 0..(job.pdfs[f].pages - 1)} : f \in 1..Len(job.pdfs)}

\* the rounds it takes to exhaust the longest file
CombineRounds ==
    LET need == {(job.pdfs[f].pages + job.chunk - 1) \div job.chunk : f \in 1..Len(job.pdfs)}
    IN  CHOOSE m \in need : \A n \in need : n <= m

\* page p is put out before page q: an earlier round, or the same round and
\* an earlier file, or the same file and an earlier page
PutOutBefore(p, q) ==
    \/ p[2] \div job.chunk < q[2] \div job.chunk
    \/ /\ p[2] \div job.chunk = q[2] \div job.chunk
       /\ \/ p[1] < q[1]
          \/ p[1] = q[1] /\ p[2] < q[2]

\* C30: combine_interleave of files the reader opens stops after at most one
\* pass more than the longest file has chunks; with loop = Yes the document
\* holds every page of every file once, round by round, in each round the
\* files in upload order with up to chunk pages each in their own order;
\* with loop = No it holds the first chunk pages of each file, file by file.
C30_InterleaveOutput ==
    (job.pc # "idle" /\ job.tool = "combine" /\ job.status \in {0, 200}) =>
        /\ job.pc = "loop" => job.passes < CombineRounds + 1
        /\ job.pc \in {"finish", "done"} => job.passes <= CombineRounds + 1
        /\ job.pc = "done" =>
              LET wanted == IF job.loop THEN UploadedPages
                            ELSE {p \in UploadedPages : p[2] < job.chunk}
              IN  /\ Len(job.out) = Cardinality(wanted)
                  /\ {job.out[k] : k \in 1..Len(job.out)} = wanted
                  /\ \A k, l \in 1..Len(job.out) :
                        k < l => PutOutBefore(job.out[k], job.out[l])

\* C30 witness: files of three pages and one page were combined with chunk 2
\* and loop = Yes.
C30_Witness ==
    /\ job.pc = "done" /\ job.tool = "combine" /\ job.status = 200
    /\ job.loop /\ job.chunk = 2
    /\ Len(job.pdfs) = 2 /\ job.pdfs[1].pages = 3 /\ job.pdfs[2].pages = 1
    /\ job.out = <<<<1, 0>>, <<1, 1>>, <<2, 0>>, <<1, 2>>>>

\* C26: a request of the main app for a path other than /editor is
\* delivered with the status, the headers and the body that the application
\* _AllowEditorIndexing wraps produced.
C26_OtherPathsPassThrough ==
    (wsgi.op = "request" /\ ~UnderQr(wsgi.path) /\ wsgi.path # <<"/","e","d","i","t","o","r">>) =>
        LET wrapped == _RewriteQrLink(wsgi.produced)
        IN  /\ ~wsgi.delivered.raised
            /\ wsgi.delivered.started
            /\ wsgi.delivered.status = wrapped.status
            /\ wsgi.delivered.ctype = wrapped.ctype
            /\ wsgi.delivered.clen = wrapped.clen
            /\ wsgi.delivered.body = wrapped.body

\* the m-th candidate of the loop
Candidate(base, m) == IF m = 1 THEN base ELSE Suffixed(base, m)

\* what holds of the creation p is handling once the step is taken: its
\* base is the slugified name (or, where token_base allows it, a random token
\* when the name slugifies to nothing); it is at the i-th candidate, every
\* candidate before it being the slug of a Code; i is at most one more than
\* there are Codes; the loop is left with a candidate no Code has; and the
\* row inserted carries that candidate
SlugLoopStep(p, token_base) ==
    LET before == inflight[p]
        c == inflight'[p]
        named == slugify(Strip(c.req.form["name"]))
    IN  /\ c.pc \in {"query", "insert"} =>
              /\ IF token_base /\ named = <<>> THEN c.base_slug \in SlugTokens
                 ELSE c.base_slug = named
              /\ c.i >= 1
              /\ c.row.slug = Candidate(c.base_slug, c.i)
              /\ \A m \in 1..(c.i - 1) : SlugTaken(codes', Candidate(c.base_slug, m))
              /\ c.i <= Len(codes') + 1
        /\ (before.pc = "query" /\ c.pc = "insert") => ~SlugTaken(codes, c.row.slug)
        /\ (before.pc = "insert" /\ c.pc = "done" /\ c.resp.status = 302) =>
              /\ Len(codes') = Len(codes) + 1
              /\ codes'[Len(codes')].slug = before.row.slug

\* C28 as stated: the slug create chooses is the slugified name if no Code
\* has it, otherwise <slugified name>-k for the smallest k >= 2 no Code has,
\* and the loop makes at most one query more than there are Codes.
C28_SlugFromName ==
    [][\A p \in Creators : SlugLoopStep(p, FALSE)]_vars

\* C28 amended: the base is the slugified name, or a random token of six hex
\* digits when the name slugifies to nothing; the slug create chooses is the
\* base if no Code has it when it is looked up, otherwise <base>-k for the
\* smallest k >= 2 no Code has, and the loop makes at most one query more
\* than there are Codes.
C28_SlugFromBase ==
    [][\A p \in Creators : SlugLoopStep(p, TRUE)]_vars

\* C28 witness: the name of a creation slugified to nothing, a Code held
\* the token drawn as its base, and the creation left the loop at its second
\* candidate and was stored with the slug <token>-2.
C28_Witness ==
    \E p \in Creators :
        /\ inflight[p].pc = "done"
        /\ inflight[p].resp.status = 302
        /\ slugify(Strip(inflight[p].req.form["name"])) = <<>>
        /\ inflight[p].base_slug \in SlugTokens
        /\ inflight[p].i = 2
        /\ \E i \in Rows : codes[i].slug = Suffixed(inflight[p].base_slug, 2)
====
